---- MODULE Spec2Model ----
(***************************************************************************)
(* Model of the alignment geometry engine of the Alignment Tool            *)
(* (src/js/alignment-calculations.js with the GeometryUtils it calls).     *)
(*                                                                         *)
(* Numbers.  A JavaScript number is modelled as an exact rational          *)
(* [n |-> numerator, d |-> denominator] in lowest terms with d > 0, and    *)
(* NaN as [n |-> 0, d |-> 0].  The inputs are chosen so that every square  *)
(* root the code takes is rational (consecutive IPs are an integral        *)
(* distance apart), so the model computes what the code computes up to     *)
(* floating-point rounding, which is not modelled.                         *)
(*                                                                         *)
(* Angles.  The result of Math.atan2(y, x) is kept as the primitive        *)
(* integer direction (x, y) of the vector plus a number k of added full    *)
(* turns: [y, x, k] stands for atan2(y, x) + 2*pi*k.  atan2(0, 0) = 0 is   *)
(* the direction (1, 0); the NaN angle is [y |-> 0, x |-> 0, k |-> 0].     *)
(***************************************************************************)
EXTENDS Integers, Sequences, FiniteSets, TLC

\* ------------------------------------------------------------------------
\* Integer helpers
\* ------------------------------------------------------------------------
Abs(i) == IF i < 0 THEN -i ELSE i

RECURSIVE GCD(_, _)
GCD(a, b) == IF b = 0 THEN a ELSE GCD(b, a % b)

RECURSIVE ISqrtBetween(_, _, _)
ISqrtBetween(n, lo, hi) ==
  IF lo >= hi THEN lo
  ELSE LET mid == (lo + hi + 1) \div 2
       IN IF mid <= n \div mid THEN ISqrtBetween(n, mid, hi)
                               ELSE ISqrtBetween(n, lo, mid - 1)

\* floor of the square root of a natural number
ISqrt(n) == IF n <= 0 THEN 0 ELSE ISqrtBetween(n, 1, n)

\* ------------------------------------------------------------------------
\* JavaScript numbers: exact rationals and NaN
\* ------------------------------------------------------------------------
NaN == [n |-> 0, d |-> 0]

IsNaN(q) == q.d = 0

RatReduced(num, den, g) ==
  IF den < 0 THEN [n |-> -(num \div g), d |-> -(den \div g)]
  ELSE [n |-> num \div g, d |-> den \div g]

Rat(num, den) == RatReduced(num, den, GCD(Abs(num), Abs(den)))

Num(i) == [n |-> i, d |-> 1]

Zero == Num(0)

Neg(a) == IF IsNaN(a) THEN NaN ELSE [n |-> -a.n, d |-> a.d]

AddOver(a, b, g) ==
  Rat(a.n * (b.d \div g) + b.n * (a.d \div g), (a.d \div g) * b.d)

Add(a, b) ==
  IF IsNaN(a) \/ IsNaN(b) THEN NaN ELSE AddOver(a, b, GCD(a.d, b.d))

Sub(a, b) == Add(a, Neg(b))

MulCancelled(a, b, g1, g2) ==
  Rat((a.n \div g1) * (b.n \div g2), (a.d \div g2) * (b.d \div g1))

Mul(a, b) ==
  IF IsNaN(a) \/ IsNaN(b) THEN NaN
  ELSE MulCancelled(a, b, GCD(Abs(a.n), b.d), GCD(Abs(b.n), a.d))

\* a / b.  Every division in the modelled code is guarded against a zero
\* divisor (getUnitVector, calculateLineIntersection), so the Infinity of
\* JavaScript never arises; NaN propagates.
Div(a, b) ==
  IF IsNaN(a) \/ IsNaN(b) \/ b.n = 0 THEN NaN
  ELSE Mul(a, Rat(b.d, b.n))

\* comparisons: every comparison with NaN is false
Less(a, b) == ~IsNaN(a) /\ ~IsNaN(b) /\ Sub(a, b).n < 0

LessEq(a, b) == ~IsNaN(a) /\ ~IsNaN(b) /\ Sub(a, b).n <= 0

IsZero(a) == ~IsNaN(a) /\ a.n = 0

MathAbs(a) == IF IsNaN(a) THEN NaN ELSE [n |-> Abs(a.n), d |-> a.d]

\* Math.sqrt(dx * dx + dy * dy): the common factor of dx and dy is taken
\* out before squaring so that the integers stay small; the value is exact
\* whenever (dx, dy) is along a direction with a rational unit vector.
HypotPrimitive(a, b, c, l) ==
  IF c = 0 THEN Zero
  ELSE Rat(c * ISqrt((a \div c) * (a \div c) + (b \div c) * (b \div c)), l)

HypotScaled(a, b, l) == HypotPrimitive(a, b, GCD(Abs(a), Abs(b)), l)

HypotOver(dx, dy, g) ==
  HypotScaled(dx.n * (dy.d \div g), dy.n * (dx.d \div g), (dx.d \div g) * dy.d)

Hypot(dx, dy) ==
  IF IsNaN(dx) \/ IsNaN(dy) THEN NaN ELSE HypotOver(dx, dy, GCD(dx.d, dy.d))

\* ------------------------------------------------------------------------
\* Angles
\* ------------------------------------------------------------------------
NaNAngle == [y |-> 0, x |-> 0, k |-> 0]

IsNaNAngle(a) == a.y = 0 /\ a.x = 0

\* Math.atan2(y, x); negZero says that y is the negative zero, for which
\* atan2(-0, x) is -pi when x < 0
Atan2Primitive(a, b, c, negZero) ==
  IF c = 0 THEN [y |-> 0, x |-> 1, k |-> 0]
  ELSE [y |-> a \div c, x |-> b \div c,
        k |-> IF negZero /\ a = 0 /\ b < 0 THEN -1 ELSE 0]

Atan2Scaled(a, b, negZero) == Atan2Primitive(a, b, GCD(Abs(a), Abs(b)), negZero)

Atan2Over(y, x, g, negZero) ==
  Atan2Scaled(y.n * (x.d \div g), x.n * (y.d \div g), negZero)

Atan2Signed(y, x, negZero) ==
  IF IsNaN(y) \/ IsNaN(x) THEN NaNAngle ELSE Atan2Over(y, x, GCD(y.d, x.d), negZero)

Atan2(y, x) == Atan2Signed(y, x, FALSE)

\* position of the principal value in (-pi, pi]:
\* 0 for (-pi, 0), 1 for 0, 2 for (0, pi), 3 for pi
AngleHalf(a) ==
  IF a.y < 0 THEN 0
  ELSE IF a.y > 0 THEN 2
  ELSE IF a.x > 0 THEN 1 ELSE 3

PrincipalLess(a, b) ==
  IF AngleHalf(a) # AngleHalf(b) THEN AngleHalf(a) < AngleHalf(b)
  ELSE a.x * b.y - a.y * b.x > 0

\* a < b on angles
AngleLess(a, b) ==
  /\ ~IsNaNAngle(a)
  /\ ~IsNaNAngle(b)
  /\ \/ a.k < b.k
     \/ a.k = b.k /\ PrincipalLess(a, b)

\* angle < 0 and angle > 0
AngleNegative(a) == ~IsNaNAngle(a) /\ (a.k < 0 \/ (a.k = 0 /\ AngleHalf(a) = 0))

AnglePositive(a) == ~IsNaNAngle(a) /\ (a.k > 0 \/ (a.k = 0 /\ AngleHalf(a) >= 2))

\* angle + 2 * Math.PI and angle - 2 * Math.PI
AddTwoPi(a) == IF IsNaNAngle(a) THEN a ELSE [a EXCEPT !.k = @ + 1]

SubTwoPi(a) == IF IsNaNAngle(a) THEN a ELSE [a EXCEPT !.k = @ - 1]

\* the length of the integer vector that stands for the angle
AngleNorm(a) == ISqrt(a.x * a.x + a.y * a.y)

\* Math.sin(angle) and Math.cos(angle)
MathSin(a) == IF IsNaNAngle(a) THEN NaN ELSE Rat(a.y, AngleNorm(a))

MathCos(a) == IF IsNaNAngle(a) THEN NaN ELSE Rat(a.x, AngleNorm(a))

\* tan(0.05) = 0.0500417084..., as the continued-fraction convergent 60/1199
\* = 0.0500417014...; no deflection of the model lies between the two
TanThresholdNum == 60

TanThresholdDen == 1199

\* Math.abs(angle) < 0.05
AbsBelowThreshold(a) ==
  /\ ~IsNaNAngle(a)
  /\ a.x > 0
  /\ Abs(a.y) * TanThresholdDen < TanThresholdNum * a.x

\* Math.tan(Math.PI / 2) is the finite double 16331239353195370, because
\* Math.PI / 2 is not exactly pi/2.  The model keeps it finite and positive
\* with a value that TLC's integers can carry; no outcome checked here
\* depends on its magnitude.
TanHalfPi == 200

\* Math.tan(Math.abs(angle) / 2) = |sin| / (1 + cos)
TanHalfOver(a, h) ==
  IF h + a.x = 0 THEN Num(TanHalfPi) ELSE Rat(Abs(a.y), h + a.x)

TanHalfAbs(a) == IF IsNaNAngle(a) THEN NaN ELSE TanHalfOver(a, AngleNorm(a))

\* ------------------------------------------------------------------------
\* JavaScript values that reach a `radius` parameter: a number, the
\* RadiusSpec object { default: r, 1: r1, ... } built by
\* AlignmentTool.saveAlignment, or a string (object + number concatenates)
\* ------------------------------------------------------------------------
NoSpec == [default |-> NaN, byIndex |-> <<>>]

JSNum(q) == [kind |-> "num", num |-> q, spec |-> NoSpec]

JSSpec(def, byIndex) ==
  [kind |-> "spec", num |-> NaN, spec |-> [default |-> def, byIndex |-> byIndex]]

JSStr == [kind |-> "str", num |-> NaN, spec |-> NoSpec]

\* ToNumber: an object or the string "[object Object]..." converts to NaN
ToNumber(v) == IF v.kind = "num" THEN v.num ELSE NaN

\* v + q: numeric addition, or string concatenation when v is not a number
JSPlus(v, q) == IF v.kind = "num" THEN JSNum(Add(v.num, q)) ELSE JSStr

\* v - q: always numeric
JSMinus(v, q) == JSNum(Sub(ToNumber(v), q))

\* ------------------------------------------------------------------------
\* GeometryUtils
\* ------------------------------------------------------------------------
Pt(x, y) == [x |-> x, y |-> y]

IPt(i, j) == Pt(Num(i), Num(j))

\* if (bearing < 0) bearing += 2 * Math.PI
normalizeBearing(bearing) ==
  IF AngleNegative(bearing) THEN AddTwoPi(bearing) ELSE bearing

\* faulty variant: dy is taken downwards, as the canvas counts y
calculateBearing_southward(point1, point2) ==
  normalizeBearing(Atan2(Sub(point2.x, point1.x), Sub(point2.y, point1.y)))

calculateBearing(point1, point2) ==
  normalizeBearing(Atan2(Sub(point2.x, point1.x), Sub(point1.y, point2.y)))

calculateDistance(point1, point2) ==
  Hypot(Sub(point2.x, point1.x), Sub(point2.y, point1.y))

unitVectorOfLength(dx, dy, length) ==
  IF IsZero(length) THEN Pt(Zero, Zero)
  ELSE Pt(Div(dx, length), Div(dy, length))

unitVectorOfDisplacement(dx, dy) == unitVectorOfLength(dx, dy, Hypot(dx, dy))

getUnitVector(point1, point2) ==
  unitVectorOfDisplacement(Sub(point2.x, point1.x), Sub(point2.y, point1.y))

getPerpendicularVector(vector) == Pt(Neg(vector.y), vector.x)

\* Math.abs(q) < 1e-10.  A non-zero rational of the model has a denominator
\* below 2^31, hence an absolute value above 1e-10: only zero is below.
AbsBelowEpsilon(q) == IsZero(q)

\* a * b is the negative zero (the zeros among the vector components are
\* all +0: a zero displacement x - x is +0 and the zero vector is {0, 0})
IsNegZeroProduct(a, b) ==
  \/ IsZero(a) /\ Less(b, Zero)
  \/ Less(a, Zero) /\ IsZero(b)

\* p1 - p2 is the negative zero exactly when p1 is -0 and p2 is +0
IsNegZeroCross(vector1, vector2) ==
  /\ IsZero(Mul(vector1.x, vector2.y))
  /\ IsZero(Mul(vector1.y, vector2.x))
  /\ IsNegZeroProduct(vector1.x, vector2.y)
  /\ ~IsNegZeroProduct(vector1.y, vector2.x)

\* p1 + p2 is the negative zero exactly when p1 and p2 both are
IsNegZeroDot(vector1, vector2) ==
  /\ IsNegZeroProduct(vector1.x, vector2.x)
  /\ IsNegZeroProduct(vector1.y, vector2.y)

\* Math.atan2(crossProduct, dotProduct) for a dotProduct that is -0:
\* Math.atan2(+0, -0) is pi and Math.atan2(-0, -0) is -pi
atan2OverNegZero(crossProduct, negZeroCross) ==
  IF IsZero(crossProduct)
  THEN [y |-> 0, x |-> -1, k |-> IF negZeroCross THEN -1 ELSE 0]
  ELSE Atan2Signed(crossProduct, Zero, FALSE)

calculateAngleBetweenVectors(vector1, vector2) ==
  IF IsNegZeroDot(vector1, vector2)
  THEN atan2OverNegZero(Sub(Mul(vector1.x, vector2.y), Mul(vector1.y, vector2.x)),
                        IsNegZeroCross(vector1, vector2))
  ELSE Atan2Signed(Sub(Mul(vector1.x, vector2.y), Mul(vector1.y, vector2.x)),
                   Add(Mul(vector1.x, vector2.x), Mul(vector1.y, vector2.y)),
                   IsNegZeroCross(vector1, vector2))

\* the point line1Start + t1 * line1Direction
pointAlongLine(line1Start, line1Direction, t1) ==
  Pt(Add(line1Start.x, Mul(t1, line1Direction.x)),
     Add(line1Start.y, Mul(t1, line1Direction.y)))

intersectionParameter(dx, dy, line2Direction, denominator) ==
  Div(Sub(Mul(dx, line2Direction.y), Mul(dy, line2Direction.x)), denominator)

\* faulty variant: the denominator is compared without Math.abs
intersectionOver_signed(line1Start, line1Direction, line2Start, line2Direction, denominator) ==
  IF Less(denominator, Zero)
  THEN [ok |-> FALSE, p |-> Pt(NaN, NaN)]
  ELSE IF AbsBelowEpsilon(denominator)
  THEN [ok |-> FALSE, p |-> Pt(NaN, NaN)]
  ELSE [ok |-> TRUE,
        p |-> pointAlongLine(line1Start, line1Direction,
                intersectionParameter(Sub(line2Start.x, line1Start.x),
                                      Sub(line2Start.y, line1Start.y),
                                      line2Direction, denominator))]

intersectionOver(line1Start, line1Direction, line2Start, line2Direction, denominator) ==
  IF AbsBelowEpsilon(denominator)
  THEN [ok |-> FALSE, p |-> Pt(NaN, NaN)]
  ELSE [ok |-> TRUE,
        p |-> pointAlongLine(line1Start, line1Direction,
                intersectionParameter(Sub(line2Start.x, line1Start.x),
                                      Sub(line2Start.y, line1Start.y),
                                      line2Direction, denominator))]

\* the result is null (ok = FALSE) or the point p
calculateLineIntersection(line1Start, line1Direction, line2Start, line2Direction) ==
  intersectionOver(line1Start, line1Direction, line2Start, line2Direction,
                   Sub(Mul(line1Direction.x, line2Direction.y),
                       Mul(line1Direction.y, line2Direction.x)))

\* ------------------------------------------------------------------------
\* AlignmentCalculations: elements from IPs
\* ------------------------------------------------------------------------
\* null / undefined / an unset slot of the sparse array `arcs`
Null == [type |-> "none"]

\* points[i] for the JavaScript index i (0-based)
At(points, i) == points[i + 1]

adjustIncomingPerp(incomingPerp, isRightTurn) ==
  Pt(IF isRightTurn THEN incomingPerp.x ELSE Neg(incomingPerp.x),
     IF isRightTurn THEN incomingPerp.y ELSE Neg(incomingPerp.y))

adjustOutgoingPerp(outgoingPerp, isRightTurn) ==
  Pt(IF isRightTurn THEN Neg(outgoingPerp.x) ELSE outgoingPerp.x,
     IF isRightTurn THEN Neg(outgoingPerp.y) ELSE outgoingPerp.y)

\* the fallback when the intersection is null
centerOrFallback(arcStart, radius, adjustedIncomingPerp, center) ==
  IF ~center.ok
  THEN Pt(Add(arcStart.x, Mul(ToNumber(radius), adjustedIncomingPerp.x)),
          Add(arcStart.y, Mul(ToNumber(radius), adjustedIncomingPerp.y)))
  ELSE center.p

centerFromPerps(arcStart, arcEnd, radius, adjustedIncomingPerp, adjustedOutgoingPerp) ==
  centerOrFallback(arcStart, radius, adjustedIncomingPerp,
                   calculateLineIntersection(arcStart, adjustedIncomingPerp,
                                             arcEnd, adjustedOutgoingPerp))

calculateArcCenter(arcStart, arcEnd, incomingVector, outgoingVector, radius, isRightTurn) ==
  centerFromPerps(arcStart, arcEnd, radius,
                  adjustIncomingPerp(getPerpendicularVector(incomingVector), isRightTurn),
                  adjustOutgoingPerp(getPerpendicularVector(outgoingVector), isRightTurn))

normalizeArcAngles(startAngle, endAngle, isRightTurn) ==
  [normalizedStartAngle |-> startAngle,
   normalizedEndAngle |->
     IF isRightTurn
     THEN IF AngleLess(endAngle, startAngle) THEN AddTwoPi(endAngle) ELSE endAngle
     ELSE IF AngleLess(startAngle, endAngle) THEN SubTwoPi(endAngle) ELSE endAngle]

\* faulty variant: Math.abs is left out, deflectionAngle < 0.05
isTooStraight_signed(deflectionAngle) ==
  AngleNegative(deflectionAngle) \/ AbsBelowThreshold(deflectionAngle)

\* Math.abs(deflectionAngle) < 0.05
isTooStraight(deflectionAngle) == AbsBelowThreshold(deflectionAngle)

\* Math.tan(Math.abs(angle)), the half forgotten
TanAbs(a) ==
  IF IsNaNAngle(a) THEN NaN
  ELSE IF a.x = 0 THEN Num(TanHalfPi) ELSE Rat(Abs(a.y), a.x)

\* faulty variant: the deflection is not halved
calculateTangentLength_unhalved(radius, deflectionAngle) ==
  Mul(ToNumber(radius), TanAbs(deflectionAngle))

\* radius * Math.tan(halfDeflection)
calculateTangentLength(radius, deflectionAngle) ==
  Mul(ToNumber(radius), TanHalfAbs(deflectionAngle))

\* the returned arc object
arcElement(currentPoint, radius, deflectionAngle, isRightTurn, tangentLength, arcStart, arcEnd, center, normalized) ==
  [type |-> "arc",
   centerPoint |-> center,
   radius |-> radius,
   startAngle |-> normalized.normalizedStartAngle,
   endAngle |-> normalized.normalizedEndAngle,
   deflectionAngle |-> deflectionAngle,
   isRightTurn |-> isRightTurn,
   startPoint |-> arcStart,
   endPoint |-> arcEnd,
   ipPoint |-> currentPoint,
   tangentLength |-> tangentLength,
   inputRadius |-> radius]

\* lines 118-123: the drawing angles, start at arcEnd and end at arcStart
arcFromCenter(currentPoint, radius, deflectionAngle, isRightTurn, tangentLength, arcStart, arcEnd, center) ==
  arcElement(currentPoint, radius, deflectionAngle, isRightTurn, tangentLength,
             arcStart, arcEnd, center,
             normalizeArcAngles(
               Atan2(Sub(arcEnd.y, center.y), Sub(arcEnd.x, center.x)),
               Atan2(Sub(arcStart.y, center.y), Sub(arcStart.x, center.x)),
               isRightTurn))

\* line 116: the center
arcFromEnds(currentPoint, radius, incomingVector, outgoingVector, deflectionAngle, isRightTurn, tangentLength, arcStart, arcEnd) ==
  arcFromCenter(currentPoint, radius, deflectionAngle, isRightTurn, tangentLength,
                arcStart, arcEnd,
                calculateArcCenter(arcStart, arcEnd, incomingVector, outgoingVector,
                                   radius, isRightTurn))

\* lines 104-113: the arc start and end points on the tangent lines
arcFromTangentLength(currentPoint, radius, incomingVector, outgoingVector, deflectionAngle, isRightTurn, tangentLength) ==
  arcFromEnds(currentPoint, radius, incomingVector, outgoingVector, deflectionAngle,
              isRightTurn, tangentLength,
              Pt(Sub(currentPoint.x, Mul(tangentLength, incomingVector.x)),
                 Sub(currentPoint.y, Mul(tangentLength, incomingVector.y))),
              Pt(Add(currentPoint.x, Mul(tangentLength, outgoingVector.x)),
                 Add(currentPoint.y, Mul(tangentLength, outgoingVector.y))))

\* faulty variant: the early return for a small deflection is missing
arcFromDeflection_noSkip(currentPoint, radius, incomingVector, outgoingVector, deflectionAngle) ==
  arcFromTangentLength(currentPoint, radius, incomingVector, outgoingVector,
                       deflectionAngle, AnglePositive(deflectionAngle),
                       calculateTangentLength(radius, deflectionAngle))

\* lines 92-102: the early return, the turn direction, the tangent length
arcFromDeflection(currentPoint, radius, incomingVector, outgoingVector, deflectionAngle) ==
  IF isTooStraight(deflectionAngle) THEN Null
  ELSE arcFromTangentLength(currentPoint, radius, incomingVector, outgoingVector,
                            deflectionAngle, AnglePositive(deflectionAngle),
                            calculateTangentLength(radius, deflectionAngle))

\* line 90: the deflection angle
arcFromVectors(currentPoint, radius, incomingVector, outgoingVector) ==
  arcFromDeflection(currentPoint, radius, incomingVector, outgoingVector,
                    calculateAngleBetweenVectors(incomingVector, outgoingVector))

calculateArcElement(prevPoint, currentPoint, nextPoint, radius) ==
  arcFromVectors(currentPoint, radius,
                 getUnitVector(prevPoint, currentPoint),
                 getUnitVector(currentPoint, nextPoint))

\* first loop: arcs[i] for the intermediate IPs i = 1 .. length - 2; a slot
\* holds Null where the loop stored nothing
calculateArcs(points, defaultRadius) ==
  [i \in 1..(Len(points) - 2) |->
     calculateArcElement(At(points, i - 1), At(points, i), At(points, i + 1),
                         defaultRadius)]

\* arcs[i], undefined outside the indices the first loop visited
arcAt(arcs, i) == IF i \in DOMAIN arcs THEN arcs[i] ELSE Null

\* faulty variant: the tangent is attached to the wrong end of the arc
tangentStartPoint_arcStart(points, arcs, i) ==
  IF arcAt(arcs, i).type = "arc" THEN arcAt(arcs, i).startPoint ELSE At(points, i)

tangentStartPoint(points, arcs, i) ==
  IF arcAt(arcs, i).type = "arc" THEN arcAt(arcs, i).endPoint ELSE At(points, i)

tangentEndPoint(points, arcs, i) ==
  IF arcAt(arcs, i + 1).type = "arc" THEN arcAt(arcs, i + 1).startPoint
  ELSE At(points, i + 1)

\* the tangent object
tangentElement(startPoint, endPoint, originalStart, originalEnd) ==
  [type |-> "tangent",
   startPoint |-> startPoint,
   endPoint |-> endPoint,
   bearing |-> calculateBearing(startPoint, endPoint),
   length |-> calculateDistance(startPoint, endPoint),
   originalStart |-> originalStart,
   originalEnd |-> originalEnd]

calculateTangentElement(points, arcs, i) ==
  tangentElement(tangentStartPoint(points, arcs, i), tangentEndPoint(points, arcs, i),
                 At(points, i), At(points, i + 1))

\* faulty variant: the loop stops one index early
calculateTangents_skipLast(points, arcs) ==
  [k \in 1..(Len(points) - 2) |-> calculateTangentElement(points, arcs, k - 1)]

\* second loop: one tangent per i = 0 .. length - 2
calculateTangents(points, arcs) ==
  [k \in 1..(Len(points) - 1) |-> calculateTangentElement(points, arcs, k - 1)]

IsArc(element) == element.type = "arc"

IsTangent(element) == element.type = "tangent"

\* third loop: the arcs that exist, in increasing IP index
collectArcs(arcs) == SelectSeq(arcs, IsArc)

\* faulty variant: the arcs are pushed before the tangents
assembleElements_arcsFirst(tangents, arcElements) == arcElements \o tangents

\* the order in which the elements are pushed
assembleElements(tangents, arcElements) == tangents \o arcElements

elementsFromArcs(points, arcs) ==
  assembleElements(calculateTangents(points, arcs), collectArcs(arcs))

\* faulty variant: a single point yields a tangent from the point to itself
calculateAlignmentElements_pointTangent(points, curvePoints, defaultRadius) ==
  IF Len(points) = 0 THEN <<>>
  ELSE IF Len(points) = 1
  THEN << tangentElement(points[1], points[1], points[1], points[1]) >>
  ELSE elementsFromArcs(points, calculateArcs(points, defaultRadius))

calculateAlignmentElements(points, curvePoints, defaultRadius) ==
  IF Len(points) < 2 THEN <<>>
  ELSE elementsFromArcs(points, calculateArcs(points, defaultRadius))

\* faulty variant: the loop consumes the array it walks
pointsAfterCall_shifted(points) ==
  IF Len(points) = 0 THEN points ELSE Tail(points)

\* the points array after a call: the engine only reads points[i] and
\* points.length, the array and its objects are left as they are
pointsAfterCall(points) == points

\* ------------------------------------------------------------------------
\* AlignmentCalculations: offset elements
\* ------------------------------------------------------------------------
\* faulty variant: the sign of the offset distance is dropped
offsetPoint_unsigned(point, offsetDistance, vector) ==
  Pt(Add(point.x, Mul(MathAbs(offsetDistance), vector.x)),
     Add(point.y, Mul(MathAbs(offsetDistance), vector.y)))

\* the point moved by offsetDistance along the vector
offsetPoint(point, offsetDistance, vector) ==
  Pt(Add(point.x, Mul(offsetDistance, vector.x)),
     Add(point.y, Mul(offsetDistance, vector.y)))

offsetTangentAlong(tangent, offsetDistance, perpendicular) ==
  [type |-> "tangent",
   startPoint |-> offsetPoint(tangent.startPoint, offsetDistance, perpendicular),
   endPoint |-> offsetPoint(tangent.endPoint, offsetDistance, perpendicular),
   bearing |-> tangent.bearing,
   length |-> tangent.length,
   offset |-> offsetDistance,
   parentElement |-> tangent]

calculateOffsetTangent(tangent, offsetDistance) ==
  offsetTangentAlong(tangent, offsetDistance,
    getPerpendicularVector(getUnitVector(tangent.startPoint, tangent.endPoint)))

calculateOffsetRadius(arc, offsetDistance) ==
  IF arc.isRightTurn THEN JSPlus(arc.radius, offsetDistance)
  ELSE JSMinus(arc.radius, offsetDistance)

\* offsetRadius <= 0
isOffsetRadiusDegenerate(offsetRadius) == LessEq(ToNumber(offsetRadius), Zero)

\* { x: -Math.sin(angle), y: Math.cos(angle) }
radialPerpendicular(angle) == Pt(Neg(MathSin(angle)), MathCos(angle))

offsetArcOfRadius(arc, offsetDistance, offsetRadius) ==
  IF isOffsetRadiusDegenerate(offsetRadius) THEN Null
  ELSE [type |-> "arc",
        centerPoint |-> arc.centerPoint,
        radius |-> offsetRadius,
        startAngle |-> arc.startAngle,
        endAngle |-> arc.endAngle,
        deflectionAngle |-> arc.deflectionAngle,
        isRightTurn |-> arc.isRightTurn,
        startPoint |-> offsetPoint(arc.startPoint, offsetDistance,
                                   radialPerpendicular(arc.startAngle)),
        endPoint |-> offsetPoint(arc.endPoint, offsetDistance,
                                 radialPerpendicular(arc.endAngle)),
        ipPoint |-> arc.ipPoint,
        tangentLength |-> arc.tangentLength,
        offset |-> offsetDistance,
        parentElement |-> arc]

calculateOffsetArc(arc, offsetDistance) ==
  offsetArcOfRadius(arc, offsetDistance, calculateOffsetRadius(arc, offsetDistance))

\* the offset of one element, Null when nothing is pushed for it
calculateOffsetElement(element, offsetDistance) ==
  IF element.type = "tangent" THEN calculateOffsetTangent(element, offsetDistance)
  ELSE IF element.type = "arc" THEN calculateOffsetArc(element, offsetDistance)
  ELSE Null

IsPushed(element) == element.type # "none"

calculateOffsetAlignment(elements, offsetDistance) ==
  IF Len(elements) = 0 THEN <<>>
  ELSE SelectSeq([k \in 1..Len(elements) |->
                    calculateOffsetElement(elements[k], offsetDistance)],
                 IsPushed)

\* ------------------------------------------------------------------------
\* Selection: GeometryUtils proximity tests, isElementAtPosition, getElementAt
\* ------------------------------------------------------------------------
\* this.tolerance
tolerance == Num(15)

\* distance <= tolerance
isPointNear(point1, point2, tol) ==
  LessEq(calculateDistance(point1, point2), tol)

\* Math.abs(distanceToStart + distanceToEnd - lineLength) < tolerance
isPointOnLine(point, lineStart, lineEnd, tol) ==
  Less(MathAbs(Sub(Add(calculateDistance(point, lineStart),
                       calculateDistance(point, lineEnd)),
                   calculateDistance(lineStart, lineEnd))),
       tol)

\* faulty variant: the boundary is excluded
isPointOnArc_strict(point, arcCenter, radius, tol) ==
  Less(MathAbs(Sub(calculateDistance(point, arcCenter), ToNumber(radius))), tol)

\* Math.abs(centerDistance - radius) <= tolerance
isPointOnArc(point, arcCenter, radius, tol) ==
  LessEq(MathAbs(Sub(calculateDistance(point, arcCenter), ToNumber(radius))), tol)

isElementAtPosition(pos, element, tol) ==
  IF element.type = "tangent"
  THEN isPointOnLine(pos, element.startPoint, element.endPoint, tol)
  ELSE IF element.type = "arc"
  THEN isPointOnArc(pos, element.centerPoint, element.radius, tol)
  ELSE FALSE

\* faulty variant: the loop keeps going and returns the last match
RECURSIVE getElementFrom_lastMatch(_, _, _, _)
getElementFrom_lastMatch(els, k, pos, found) ==
  IF k > Len(els) THEN found
  ELSE IF isElementAtPosition(pos, els[k], tolerance)
  THEN getElementFrom_lastMatch(els, k + 1, pos, els[k])
  ELSE getElementFrom_lastMatch(els, k + 1, pos, found)

\* for (let element of elements) { if (isElementAtPosition(...)) return element; }
\* return null;
RECURSIVE getElementFrom(_, _, _, _)
getElementFrom(els, k, pos, found) ==
  IF k > Len(els) THEN found
  ELSE IF isElementAtPosition(pos, els[k], tolerance) THEN els[k]
  ELSE getElementFrom(els, k + 1, pos, found)

\* AlignmentTool.getElementAt on the elements of the current alignment
getElementAt(els, pos) == getElementFrom(els, 1, pos, Null)

\* ------------------------------------------------------------------------
\* Inputs
\* ------------------------------------------------------------------------
\* largest number of IPs in an input sequence
MaxPoints == 4

\* the positions an IP is drawn from.  Leaving (100,0) for (860,39) after
\* arriving along the x axis deflects by 2*atan(1/39) = 0.0513 rad; leaving
\* (0,100) for (-1599,20) after arriving from (100,100) deflects by
\* 2*atan(1/40) = 0.04999 rad: just above and just below the 0.05 threshold.
IPChoices ==
  { IPt(0, 0), IPt(100, 0), IPt(100, 100), IPt(200, 0), IPt(130, 40),
    IPt(0, 100), IPt(860, 39), IPt(-1599, 20) }

SquaredDistance(p, q) ==
  (q.x.n - p.x.n) * (q.x.n - p.x.n) + (q.y.n - p.y.n) * (q.y.n - p.y.n)

IsSquare(s) == ISqrt(s) * ISqrt(s) = s

\* the two points are a whole number of units apart
IntegralDistance(p, q) == IsSquare(SquaredDistance(p, q))

RECURSIVE IPSequencesOfLength(_)
IPSequencesOfLength(n) ==
  IF n = 0 THEN { <<>> }
  ELSE IF n = 1 THEN { <<p>> : p \in IPChoices }
  ELSE UNION { { Append(w, p) : p \in { q \in IPChoices : IntegralDistance(w[Len(w)], q) } }
               : w \in IPSequencesOfLength(n - 1) }

IPSequences == UNION { IPSequencesOfLength(n) : n \in 0..MaxPoints }

\* validated radii (positive numbers)
RadiusValues == { Num(10), Num(20), Num(100) }

\* per-IP radii stored in a RadiusSpec of n interior IPs: the same at every
\* IP, or alternating
SpecRadii(n) ==
  { [i \in 1..n |-> Num(20)],
    [i \in 1..n |-> IF i % 2 = 1 THEN Num(100) ELSE Num(20)] }

\* what callers pass as third argument: a number (the documented
\* defaultRadius), or the RadiusSpec object of AlignmentTool (main.js:215,
\* main.js:266) with one entry per interior IP
RadiusArguments(pts) ==
  { JSNum(r) : r \in RadiusValues }
  \cup { JSSpec(Num(100), f) : f \in SpecRadii(Len(pts) - 2) }

OffsetDistances == { Num(-20), Num(15) }

\* largest component of an angle's direction whose sine and cosine are
\* computed
MaxDirection == 40000

\* the sine and cosine of the angle are rational (or NaN)
HasRationalSine(a) ==
  IF IsNaNAngle(a) THEN TRUE
  ELSE /\ Abs(a.x) <= MaxDirection
       /\ Abs(a.y) <= MaxDirection
       /\ IsSquare(a.x * a.x + a.y * a.y)

\* the elements whose offset is computed: the angles of the arcs have
\* rational sines and cosines
IsOffsettable(element) ==
  IsArc(element) =>
    HasRationalSine(element.startAngle) /\ HasRationalSine(element.endAngle)

\* largest coordinate of an element that is queried
MaxCoordinate == 20000

\* NaN, or a whole number of bounded size
IsSmallCoordinate(q) ==
  IF IsNaN(q) THEN TRUE ELSE q.d = 1 /\ Abs(q.n) <= MaxCoordinate

IsSmallPoint(p) == IsSmallCoordinate(p.x) /\ IsSmallCoordinate(p.y)

\* the element lies on the integer grid, where the distances to the mouse
\* positions stay within the integers of the model
IsOnGrid(element) ==
  /\ IsSmallPoint(element.startPoint)
  /\ IsSmallPoint(element.endPoint)
  /\ IsArc(element) => IsSmallPoint(element.centerPoint)

\* largest number of IPs of an alignment whose elements are queried
MaxQueriedPoints == 3

\* mouse positions.  For (0,0), (100,0), (100,100): (40,0) is on the first
\* tangent; (96,2) is on the circle of the arc of radius 10 and within
\* tolerance of the first tangent; the arc of radius 100 has center (0,100)
\* and sweeps from (0,0) to (100,100), (-115,100) and (115,100) are exactly
\* tolerance outside its circle and (-116,100) is one unit further out
MousePositions ==
  { IPt(40, 0), IPt(96, 2), IPt(-115, 100), IPt(-116, 100), IPt(115, 100) }

\* ------------------------------------------------------------------------
\* AlignmentTool: the parts of the handlers that compute values
\* ------------------------------------------------------------------------
\* const radii = { default: defaultRadius }; radii[i] = defaultRadius for
\* i = 1 .. length - 2
radiiOf(defaultRadius, n) ==
  JSSpec(defaultRadius, [i \in 1..(n - 2) |-> defaultRadius])

\* curvePoints: a copy of the start point and of the end point of every arc
RECURSIVE curvePointsFrom(_, _)
curvePointsFrom(els, k) ==
  IF k > Len(els) THEN <<>>
  ELSE IF els[k].type = "arc"
  THEN << Pt(els[k].startPoint.x, els[k].startPoint.y),
          Pt(els[k].endPoint.x, els[k].endPoint.y) >> \o curvePointsFrom(els, k + 1)
  ELSE curvePointsFrom(els, k + 1)

\* the alignment object
alignmentObject(name, pts, els, radii) ==
  [name |-> name,
   points |-> pts,
   elements |-> els,
   curvePoints |-> curvePointsFrom(els, 1),
   radii |-> radii]

\* the object built by saveAlignment: the radii object is the third argument
\* of the engine
savedAlignment(name, tempPts, radii) ==
  alignmentObject(name, tempPts, calculateAlignmentElements(tempPts, <<>>, radii), radii)

\* faulty variant: the elements are left as they are
recalculateAlignment_stale(alignment) == alignment

\* recalculateAlignment: elements and curvePoints are replaced by those of a
\* new call of the engine on the alignment's points and radii
recalculateAlignment(alignment) ==
  alignmentObject(alignment.name, alignment.points,
                  calculateAlignmentElements(alignment.points, <<>>, alignment.radii),
                  alignment.radii)

\* elements.find(el => el.type === 'arc' && el.ipIndex === selected.ipIndex):
\* no element has an ipIndex property, undefined === undefined, so the
\* first arc is found; Null stands for undefined when there is none
findArcOf(els) ==
  IF collectArcs(els) = <<>> THEN Null ELSE Head(collectArcs(els))

\* the selected element after recalculateAlignment
reselected(selected, els) ==
  IF selected.type = "arc" THEN findArcOf(els) ELSE selected

\* a tangent whose originalStart object is moved to q: startPoint is the
\* same object unless it is the end point of an arc (which, computed from
\* a radii object, is never equal to the IP)
tangentStartMoved(t, q) ==
  [t EXCEPT !.originalStart = q,
            !.startPoint = IF t.startPoint = t.originalStart THEN q ELSE t.startPoint]

tangentEndMoved(t, q) ==
  [t EXCEPT !.originalEnd = q,
            !.endPoint = IF t.endPoint = t.originalEnd THEN q ELSE t.endPoint]

\* element k of an alignment of n points after the point object of index i
\* (from 1) is moved to q: tangent k runs from point k to point k + 1; the
\* arcs hold copies
elementAfterMove(el, k, n, i, q) ==
  IF k > n - 1 THEN el
  ELSE IF k = i THEN tangentStartMoved(el, q)
  ELSE IF k = i - 1 THEN tangentEndMoved(el, q)
  ELSE el

\* draggedPoint.x = ..., draggedPoint.y = ...: the object is shared by the
\* points array and by the elements computed from it
pointMoved(alignment, i, q) ==
  [alignment EXCEPT
     !.points[i] = q,
     !.elements = [k \in 1..Len(alignment.elements) |->
                     elementAfterMove(alignment.elements[k], k,
                                      Len(alignment.points), i, q)]]

\* the position (from 1) in the elements of the first arc, 0 when `find`
\* returns undefined
RECURSIVE findArcIndexFrom(_, _)
findArcIndexFrom(els, k) ==
  IF k > Len(els) THEN 0
  ELSE IF els[k].type = "arc" THEN k
  ELSE findArcIndexFrom(els, k + 1)

\* where the selected object is among the new elements after
\* recalculateAlignment: an arc is looked up again, any other selection
\* keeps referring to an object of the replaced array
reselectedIndex(selected, els) ==
  IF selected.type = "arc" THEN findArcIndexFrom(els, 1) ELSE 0

\* the position (from 1) of the element getElementAt returns, 0 for null
RECURSIVE elementIndexFrom(_, _, _)
elementIndexFrom(els, k, pos) ==
  IF k > Len(els) THEN 0
  ELSE IF isElementAtPosition(pos, els[k], tolerance) THEN k
  ELSE elementIndexFrom(els, k + 1, pos)

\* updateSelectedElementInfo ends with a TypeError: the selected element is
\* an arc whose radius is not a number, so radius.toFixed is undefined
infoThrows(selected) ==
  IF selected.type = "arc" THEN selected.radius.kind # "num" ELSE FALSE

\* getPointAt: the index (from 1) of the first point within tolerance,
\* 0 for null
RECURSIVE getPointFrom(_, _, _)
getPointFrom(pts, k, pos) ==
  IF k > Len(pts) THEN 0
  ELSE IF isPointNear(pos, pts[k], tolerance) THEN k
  ELSE getPointFrom(pts, k + 1, pos)

getPointAt(pos, pts) == getPointFrom(pts, 1, pos)

\* { x: mousePos.x - point.x, y: mousePos.y - point.y }
offsetFrom(pos, point) == Pt(Sub(pos.x, point.x), Sub(pos.y, point.y))

\* ------------------------------------------------------------------------
\* UIManager: the text of the radius field
\* ------------------------------------------------------------------------
Digits == << "0", "1", "2", "3", "4", "5", "6", "7", "8", "9" >>

IsDigit(c) == \E d \in 1..10 : Digits[d] = c

DigitValue(c) == (CHOOSE d \in 1..10 : Digits[d] = c) - 1

RECURSIVE Pow10(_)
Pow10(n) == IF n = 0 THEN 1 ELSE 10 * Pow10(n - 1)

\* the index after the white space that starts at k
RECURSIVE skipWhiteSpace(_, _)
skipWhiteSpace(s, k) ==
  IF k > Len(s) THEN k
  ELSE IF s[k] = " " THEN skipWhiteSpace(s, k + 1)
  ELSE k

\* the index after the digits that start at k
RECURSIVE digitsEnd(_, _)
digitsEnd(s, k) ==
  IF k > Len(s) THEN k
  ELSE IF IsDigit(s[k]) THEN digitsEnd(s, k + 1)
  ELSE k

\* the number written by the digits s[a], ..., s[b - 1]
RECURSIVE digitsValue(_, _, _)
digitsValue(s, a, b) ==
  IF a >= b THEN 0
  ELSE digitsValue(s, a, b - 1) * 10 + DigitValue(s[b - 1])

\* the index after the fraction that may follow the integer part
fractionEnd(s, intEnd) ==
  IF intEnd > Len(s) THEN intEnd
  ELSE IF s[intEnd] = "." THEN digitsEnd(s, intEnd + 1)
  ELSE intEnd

\* number of digits of the fraction
fractionLength(s, intEnd) ==
  IF fractionEnd(s, intEnd) = intEnd THEN 0 ELSE fractionEnd(s, intEnd) - intEnd - 1

\* the decimal literal with integer part s[k .. intEnd - 1]; NaN when it
\* has no digit at all
decimalValue(s, k, intEnd) ==
  IF intEnd = k /\ fractionLength(s, intEnd) = 0 THEN NaN
  ELSE Div(Num(digitsValue(s, k, intEnd) * Pow10(fractionLength(s, intEnd))
               + digitsValue(s, intEnd + 1, fractionEnd(s, intEnd))),
           Num(Pow10(fractionLength(s, intEnd))))

\* the literal that starts at k, after an optional sign
signedValue(s, k) ==
  IF k > Len(s) THEN NaN
  ELSE IF s[k] = "-" THEN Neg(decimalValue(s, k + 1, digitsEnd(s, k + 1)))
  ELSE IF s[k] = "+" THEN decimalValue(s, k + 1, digitsEnd(s, k + 1))
  ELSE decimalValue(s, k, digitsEnd(s, k))

\* parseFloat(text): the longest prefix, after leading white space, that is
\* a decimal literal without exponent; NaN if there is none
parseFloat(s) == signedValue(s, skipWhiteSpace(s, 1))

\* the digits of a natural number
RECURSIVE naturalText(_)
naturalText(n) ==
  IF n < 10 THEN << Digits[n + 1] >>
  ELSE Append(naturalText(n \div 10), Digits[(n % 10) + 1])

\* q * 10 rounded to the nearest integer, for q >= 0
roundedTenths(q) == (2 * 10 * q.n + q.d) \div (2 * q.d)

tenthsText(t) == naturalText(t \div 10) \o << ".", Digits[(t % 10) + 1] >>

\* q.toFixed(1)
toFixed1(q) ==
  IF IsNaN(q) THEN << "N", "a", "N" >>
  ELSE IF q.n < 0 THEN << "-" >> \o tenthsText(roundedTenths(Neg(q)))
  ELSE tenthsText(roundedTenths(q))

\* faulty variant: zero is let through
isRejected_negative(newRadius) ==
  IF IsNaN(newRadius) THEN TRUE ELSE Less(newRadius, Zero)

\* isNaN(newRadius) || newRadius <= 0
isRejected(newRadius) ==
  IF IsNaN(newRadius) THEN TRUE ELSE LessEq(newRadius, Zero)

\* ------------------------------------------------------------------------
\* AlignmentTool: inputs
\* ------------------------------------------------------------------------
\* largest number of points of one drawing
MaxToolPoints == 3

\* largest number of saved alignments
MaxAlignments == 1

\* positions of the IPs that are drawn and dragged
ToolIPChoices == { IPt(0, 0), IPt(100, 0), IPt(100, 100), IPt(200, 0) }

\* the clicks of a drawing: it starts at (0,0) and every IP is a whole
\* number of units from the previous one
DrawChoices(tempPts) ==
  IF Len(tempPts) >= MaxToolPoints THEN {}
  ELSE IF Len(tempPts) = 0 THEN { IPt(0, 0) }
  ELSE { q \in ToolIPChoices :
           IF q = tempPts[Len(tempPts)] THEN FALSE
           ELSE IntegralDistance(tempPts[Len(tempPts)], q) }

\* largest number of points of a drawing that follows a saved alignment
MaxLaterPoints == 2

LaterDrawChoices(tempPts) ==
  IF Len(tempPts) >= MaxLaterPoints THEN {} ELSE DrawChoices(tempPts)

\* positions clicked to select an element
SelectPositions == { IPt(40, 0), IPt(50, 50) }

\* where the mouse is pressed relative to an IP
GrabOffsets == { IPt(0, 0), IPt(3, 4) }

\* positions at which the mouse is pressed
GrabPositions ==
  { Pt(Add(p.x, o.x), Add(p.y, o.y)) : p \in ToolIPChoices, o \in GrabOffsets }
  \cup { IPt(50, 50) }

\* q is a whole number of units from the neighbours of point i
FitsNeighbours(pts, i, q) ==
  /\ IF i > 1 THEN IntegralDistance(pts[i - 1], q) ELSE TRUE
  /\ IF i < Len(pts) THEN IntegralDistance(q, pts[i + 1]) ELSE TRUE

\* positions to which point i is dragged
DragTargets(pts, i) == { q \in ToolIPChoices : FitsNeighbours(pts, i, q) }

\* radii entered in the radius dialog
NewRadii == { Num(50) }

\* values of the radius field: it is a number input, whose value is the
\* empty text unless it is a number
NumberInputValues ==
  { <<>>, << "0" >>, << "-", "5" >>, << "5", "0" >>, << "1", "2", ".", "5" >>,
    << "0", ".", "0" >> }

\* names entered in the name dialog
AlignmentNames == { "", "A" }

\* ------------------------------------------------------------------------
\* State
\* ------------------------------------------------------------------------
VARIABLES
  pc,              \* "input", then "computed", then "offset" or "queried"
  points,          \* the IP sequence passed to calculateAlignmentElements
  radiusArg,       \* its third argument
  arcs,            \* the local sparse array `arcs` when the call returns
  elements,        \* the returned elements
  offsetDistance,  \* the distance passed to calculateOffsetAlignment
  offsetElements,  \* the returned offset elements
  mousePos,        \* the position passed to getElementAt
  foundElement,    \* the element it returned, Null for null
  isDrawing,       \* AlignmentTool.isDrawing
  isEditing,       \* AlignmentTool.isEditing
  tempPoints,      \* AlignmentTool.tempPoints
  alignments,      \* AlignmentTool.alignments; currentAlignment is the last
  draggedPoint,    \* the dragged point object: alignment a, index i; or Null
  draggedCurvePoint, \* index in curvePoints of the dragged object, 0 for null
  dragOffset,      \* AlignmentTool.dragOffset
  defaultRadius,   \* AlignmentTool.defaultRadius
  selectedElement, \* AlignmentTool.selectedElement, Null for null
  selectedIndex,   \* position of that object in currentAlignment.elements,
                   \* 0 if it is null or not one of them
  threw,           \* a handler ended with a TypeError
  editingArc,      \* UIManager.editingArc, Null for null
  radiusModalHidden, \* #radiusModal has the class `hidden`
  newRadiusInput,  \* the value of #newRadiusInput, a sequence of characters
  callbackArg,     \* argument of the last call of callbacks.updateRadius
                   \* made by saveRadius, Null before the first
  alerted          \* the last saveRadius showed the alert

engineVars == <<pc, points, radiusArg, arcs, elements, offsetDistance,
                offsetElements, mousePos, foundElement>>

toolVars == <<isDrawing, isEditing, tempPoints, alignments, draggedPoint,
              draggedCurvePoint, dragOffset, defaultRadius, selectedElement,
              selectedIndex, threw>>

dialogVars == <<editingArc, radiusModalHidden, newRadiusInput, callbackArg, alerted>>

vars == <<engineVars, toolVars, dialogVars>>

\* the fields of AlignmentTool after the constructor
Constructed ==
  /\ isDrawing = FALSE
  /\ isEditing = FALSE
  /\ tempPoints = <<>>
  /\ alignments = <<>>
  /\ draggedPoint = Null
  /\ draggedCurvePoint = 0
  /\ dragOffset = IPt(0, 0)
  /\ defaultRadius = Num(100)
  /\ selectedElement = Null
  /\ selectedIndex = 0
  /\ threw = FALSE
  /\ editingArc = Null
  /\ radiusModalHidden = TRUE
  /\ newRadiusInput = <<>>
  /\ callbackArg = Null
  /\ alerted = FALSE

Init ==
  /\ pc = "input"
  /\ points \in IPSequences
  /\ radiusArg \in RadiusArguments(points)
  /\ arcs = <<>>
  /\ elements = <<>>
  /\ offsetDistance = Zero
  /\ offsetElements = <<>>
  /\ mousePos = IPt(0, 0)
  /\ foundElement = Null
  /\ Constructed

\* elements = AlignmentCalculations.calculateAlignmentElements(points, [], radiusArg)
CalculateAlignmentElements ==
  /\ pc = "input"
  /\ pc' = "computed"
  /\ arcs' = IF Len(points) < 2 THEN <<>> ELSE calculateArcs(points, radiusArg)
  /\ elements' = calculateAlignmentElements(points, <<>>, radiusArg)
  /\ points' = pointsAfterCall(points)
  /\ UNCHANGED <<radiusArg, offsetDistance, offsetElements, mousePos, foundElement>>
  /\ UNCHANGED toolVars
  /\ UNCHANGED dialogVars

\* a second call on the arguments of the first
CalculateAgain ==
  /\ pc = "computed"
  /\ pc' = "recomputed"
  /\ arcs' = IF Len(points) < 2 THEN <<>> ELSE calculateArcs(points, radiusArg)
  /\ elements' = calculateAlignmentElements(points, <<>>, radiusArg)
  /\ points' = pointsAfterCall(points)
  /\ UNCHANGED <<radiusArg, offsetDistance, offsetElements, mousePos, foundElement>>
  /\ UNCHANGED toolVars
  /\ UNCHANGED dialogVars

\* offsetElements = AlignmentCalculations.calculateOffsetAlignment(elements, d)
CalculateOffsetAlignment ==
  /\ pc = "computed"
  /\ \A k \in 1..Len(elements) : IsOffsettable(elements[k])
  /\ \E d \in OffsetDistances :
       /\ offsetDistance' = d
       /\ offsetElements' = calculateOffsetAlignment(elements, d)
  /\ pc' = "offset"
  /\ UNCHANGED <<points, radiusArg, arcs, elements, mousePos, foundElement>>
  /\ UNCHANGED toolVars
  /\ UNCHANGED dialogVars

\* foundElement = getElementAt(mousePos) on the computed elements
GetElementAt ==
  /\ pc = "computed"
  /\ Len(points) <= MaxQueriedPoints
  /\ \A k \in 1..Len(elements) : IsOnGrid(elements[k])
  /\ \E pos \in MousePositions :
       /\ mousePos' = pos
       /\ foundElement' = getElementAt(elements, pos)
  /\ pc' = "queried"
  /\ UNCHANGED <<points, radiusArg, arcs, elements, offsetDistance, offsetElements>>
  /\ UNCHANGED toolVars
  /\ UNCHANGED dialogVars

Next ==
  \/ CalculateAlignmentElements
  \/ CalculateAgain
  \/ CalculateOffsetAlignment
  \/ GetElementAt

Spec == Init /\ [][Next]_vars

\* ------------------------------------------------------------------------
\* AlignmentTool: the handlers
\* ------------------------------------------------------------------------
\* this.currentAlignment: the alignment pushed last, Null for null
currentAlignment ==
  IF alignments = <<>> THEN Null ELSE alignments[Len(alignments)]

ToolInit ==
  /\ pc = "tool"
  /\ points = <<>>
  /\ radiusArg = JSNum(Num(100))
  /\ arcs = <<>>
  /\ elements = <<>>
  /\ offsetDistance = Zero
  /\ offsetElements = <<>>
  /\ mousePos = IPt(0, 0)
  /\ foundElement = Null
  /\ Constructed

\* a drawing is started while one more alignment can be saved
StartDrawingWithin(limit) ==
  /\ pc = "tool"
  /\ Len(alignments) < limit
  /\ isDrawing' = TRUE
  /\ tempPoints' = <<>>
  /\ UNCHANGED <<isEditing, alignments, draggedPoint, draggedCurvePoint,
                 dragOffset, defaultRadius, selectedElement, selectedIndex, threw>>
  /\ UNCHANGED engineVars
  /\ UNCHANGED dialogVars

StartDrawing == StartDrawingWithin(MaxAlignments)

CancelDrawing ==
  /\ pc = "tool"
  /\ isDrawing' = FALSE
  /\ tempPoints' = <<>>
  /\ UNCHANGED <<isEditing, alignments, draggedPoint, draggedCurvePoint,
                 dragOffset, defaultRadius, selectedElement, selectedIndex, threw>>
  /\ UNCHANGED engineVars
  /\ UNCHANGED dialogVars

\* the positions of a click: an IP while drawing, else a position on or off
\* the elements
ClickPositions ==
  IF ~isDrawing THEN SelectPositions
  ELSE IF alignments = <<>> THEN DrawChoices(tempPoints)
  ELSE LaterDrawChoices(tempPoints)

\* selectedElement = element (or null); updateSelectedElementInfo()
selectAt(pos) ==
  /\ selectedElement' = getElementAt(currentAlignment.elements, pos)
  /\ selectedIndex' = elementIndexFrom(currentAlignment.elements, 1, pos)
  /\ threw' = IF infoThrows(getElementAt(currentAlignment.elements, pos))
              THEN TRUE ELSE threw

HandleCanvasClick ==
  /\ pc = "tool"
  /\ \E pos \in ClickPositions :
       IF isDrawing
       THEN /\ tempPoints' = Append(tempPoints, pos)
            /\ UNCHANGED <<selectedElement, selectedIndex, threw>>
       ELSE IF alignments # <<>>
       THEN /\ selectAt(pos)
            /\ UNCHANGED tempPoints
       ELSE UNCHANGED <<tempPoints, selectedElement, selectedIndex, threw>>
  /\ UNCHANGED <<isDrawing, isEditing, alignments, draggedPoint, draggedCurvePoint,
                 dragOffset, defaultRadius>>
  /\ UNCHANGED engineVars
  /\ UNCHANGED dialogVars

\* mouse down on the IP of index i of the current alignment
grabPoint(pos, i) ==
  /\ isEditing' = TRUE
  /\ draggedPoint' = [type |-> "point", a |-> Len(alignments), i |-> i]
  /\ dragOffset' = offsetFrom(pos, currentAlignment.points[i])
  /\ UNCHANGED draggedCurvePoint

\* mouse down on the curve point of index j of the current alignment
grabCurvePoint(pos, j) ==
  /\ isEditing' = TRUE
  /\ draggedCurvePoint' = j
  /\ dragOffset' = offsetFrom(pos, currentAlignment.curvePoints[j])
  /\ UNCHANGED draggedPoint

HandleMouseDown ==
  /\ pc = "tool"
  /\ \E pos \in GrabPositions :
       IF isDrawing THEN UNCHANGED <<isEditing, draggedPoint, draggedCurvePoint, dragOffset>>
       ELSE IF alignments = <<>>
       THEN UNCHANGED <<isEditing, draggedPoint, draggedCurvePoint, dragOffset>>
       ELSE IF getPointAt(pos, currentAlignment.points) # 0
       THEN grabPoint(pos, getPointAt(pos, currentAlignment.points))
       ELSE IF getPointAt(pos, currentAlignment.curvePoints) # 0
       THEN grabCurvePoint(pos, getPointAt(pos, currentAlignment.curvePoints))
       ELSE UNCHANGED <<isEditing, draggedPoint, draggedCurvePoint, dragOffset>>
  /\ UNCHANGED <<isDrawing, tempPoints, alignments, defaultRadius, selectedElement,
                 selectedIndex, threw>>
  /\ UNCHANGED engineVars
  /\ UNCHANGED dialogVars

\* the alignments after the dragged point object is moved to q and the
\* current alignment is recalculated
alignmentsAfterDrag(q) ==
  [[alignments EXCEPT ![draggedPoint.a] = pointMoved(@, draggedPoint.i, q)]
     EXCEPT ![Len(alignments)] = recalculateAlignment(@)]

\* the mouse positions of a move: while an IP is dragged, those that bring
\* it to one of the drag targets
MovePositions ==
  IF draggedPoint = Null THEN { IPt(50, 50) }
  ELSE { Pt(Add(q.x, dragOffset.x), Add(q.y, dragOffset.y)) :
           q \in DragTargets(alignments[draggedPoint.a].points, draggedPoint.i) }

\* draggedPoint.x = mousePos.x - dragOffset.x, the same for y
draggedTo(pos) == Pt(Sub(pos.x, dragOffset.x), Sub(pos.y, dragOffset.y))

\* the end of recalculateAlignment: the elements of the current alignment
\* have been replaced by els; a selected arc is looked up again and
\* updateSelectedElementInfo is called
reselect(els) ==
  /\ selectedElement' = reselected(selectedElement, els)
  /\ selectedIndex' = reselectedIndex(selectedElement, els)
  /\ threw' = IF selectedElement.type = "arc"
              THEN (IF infoThrows(reselected(selectedElement, els)) THEN TRUE ELSE threw)
              ELSE threw

\* this.draggedCurvePoint.point.x = ...: the dragged curve point is an
\* object {x, y}; it has no property `point`, and setting x on undefined
\* is a TypeError
HandleMouseMove ==
  /\ pc = "tool"
  /\ \E pos \in MovePositions :
       IF isEditing /\ draggedPoint # Null
       THEN /\ alignments' = alignmentsAfterDrag(draggedTo(pos))
            /\ reselect(alignmentsAfterDrag(draggedTo(pos))[Len(alignments)].elements)
       ELSE IF isEditing /\ draggedCurvePoint # 0
       THEN /\ threw' = TRUE
            /\ UNCHANGED <<alignments, selectedElement, selectedIndex>>
       ELSE UNCHANGED <<alignments, selectedElement, selectedIndex, threw>>
  /\ UNCHANGED <<isDrawing, isEditing, tempPoints, draggedPoint, draggedCurvePoint,
                 dragOffset, defaultRadius>>
  /\ UNCHANGED engineVars
  /\ UNCHANGED dialogVars

HandleMouseUp ==
  /\ pc = "tool"
  /\ IF isEditing
     THEN /\ isEditing' = FALSE
          /\ draggedPoint' = Null
          /\ draggedCurvePoint' = 0
     ELSE UNCHANGED <<isEditing, draggedPoint, draggedCurvePoint>>
  /\ UNCHANGED <<isDrawing, tempPoints, alignments, dragOffset, defaultRadius,
                 selectedElement, selectedIndex, threw>>
  /\ UNCHANGED engineVars
  /\ UNCHANGED dialogVars

\* the name dialog is opened by finishDrawing, which requires two points.
\* updateSelectedElementInfo is called before isDrawing and tempPoints are
\* reset: if it throws they keep their values
SaveAlignmentWithin(limit) ==
  /\ pc = "tool"
  /\ Len(tempPoints) >= 2
  /\ Len(alignments) < limit
  /\ \E name \in AlignmentNames :
       IF name = ""
       THEN UNCHANGED <<alignments, isDrawing, tempPoints, selectedIndex, threw>>
       ELSE /\ alignments' =
                 Append(alignments,
                        savedAlignment(name, tempPoints,
                                       radiiOf(defaultRadius, Len(tempPoints))))
            /\ selectedIndex' = 0
            /\ IF infoThrows(selectedElement)
               THEN /\ threw' = TRUE
                    /\ UNCHANGED <<isDrawing, tempPoints>>
               ELSE /\ isDrawing' = FALSE
                    /\ tempPoints' = <<>>
                    /\ UNCHANGED threw
  /\ UNCHANGED <<isEditing, draggedPoint, draggedCurvePoint, dragOffset,
                 defaultRadius, selectedElement>>
  /\ UNCHANGED engineVars
  /\ UNCHANGED dialogVars

SaveAlignment == SaveAlignmentWithin(MaxAlignments)

\* this.currentAlignment.radii[ipIndex] = newRadius; recalculateAlignment()
alignmentsWithRadius(ipIndex, newRadius) ==
  [alignments EXCEPT ![Len(alignments)] =
     recalculateAlignment([@ EXCEPT !.radii.spec.byIndex[ipIndex] = newRadius])]

\* ipIndex !== undefined
hasIpIndex(element) == "ipIndex" \in DOMAIN element

\* AlignmentTool.updateRadius(newRadius)
updateRadius(newRadius) ==
  IF alignments # <<>> /\ selectedElement.type = "arc"
  THEN IF hasIpIndex(selectedElement)
       THEN /\ alignments' = alignmentsWithRadius(selectedElement.ipIndex, newRadius)
            /\ reselect(alignmentsWithRadius(selectedElement.ipIndex,
                                             newRadius)[Len(alignments)].elements)
            /\ UNCHANGED defaultRadius
       ELSE UNCHANGED <<alignments, selectedElement, selectedIndex, threw, defaultRadius>>
  ELSE /\ defaultRadius' = newRadius
       /\ UNCHANGED <<alignments, selectedElement, selectedIndex, threw>>

UpdateRadius ==
  /\ pc = "tool"
  /\ \E newRadius \in NewRadii : updateRadius(newRadius)
  /\ UNCHANGED <<isDrawing, isEditing, tempPoints, draggedPoint, draggedCurvePoint,
                 dragOffset>>
  /\ UNCHANGED engineVars
  /\ UNCHANGED dialogVars

ToolNext ==
  \/ StartDrawing
  \/ CancelDrawing
  \/ HandleCanvasClick
  \/ HandleMouseDown
  \/ HandleMouseMove
  \/ HandleMouseUp
  \/ SaveAlignment
  \/ UpdateRadius

ToolSpec == ToolInit /\ [][ToolNext]_vars

\* ------------------------------------------------------------------------
\* A second alignment
\* ------------------------------------------------------------------------
\* the alignment saved first
FirstAlignment ==
  savedAlignment("A", << IPt(0, 0), IPt(100, 0) >>, radiiOf(Num(100), 2))

\* the tool after startDrawing, clicks at (0,0) and (100,0), and
\* saveAlignment under the name A
SecondInit ==
  /\ pc = "tool"
  /\ points = <<>>
  /\ radiusArg = JSNum(Num(100))
  /\ arcs = <<>>
  /\ elements = <<>>
  /\ offsetDistance = Zero
  /\ offsetElements = <<>>
  /\ mousePos = IPt(0, 0)
  /\ foundElement = Null
  /\ isDrawing = FALSE
  /\ isEditing = FALSE
  /\ tempPoints = <<>>
  /\ alignments = << FirstAlignment >>
  /\ draggedPoint = Null
  /\ draggedCurvePoint = 0
  /\ dragOffset = IPt(0, 0)
  /\ defaultRadius = Num(100)
  /\ selectedElement = Null
  /\ selectedIndex = 0
  /\ threw = FALSE
  /\ editingArc = Null
  /\ radiusModalHidden = TRUE
  /\ newRadiusInput = <<>>
  /\ callbackArg = Null
  /\ alerted = FALSE

\* one more alignment is drawn and saved
SecondNext ==
  \/ StartDrawingWithin(MaxAlignments + 1)
  \/ SaveAlignmentWithin(MaxAlignments + 1)
  \/ HandleCanvasClick
  \/ HandleMouseDown
  \/ HandleMouseMove
  \/ HandleMouseUp

SecondSpec == SecondInit /\ [][SecondNext]_vars

\* ------------------------------------------------------------------------
\* The radius dialog: handleRightClick and UIManager
\* ------------------------------------------------------------------------
\* showRadiusDialog(arc) for an arc whose radius is a number
showRadiusDialog(arc) ==
  /\ radiusModalHidden' = FALSE
  /\ newRadiusInput' = toFixed1(ToNumber(arc.radius))
  /\ editingArc' = arc
  /\ UNCHANGED <<callbackArg, alerted>>

\* the branch of handleRightClick for an element that is an arc:
\* updateSelectedElementInfo comes first and showRadiusDialog is reached
\* only if it returns
rightClickArc(pos) ==
  /\ selectAt(pos)
  /\ IF infoThrows(getElementAt(currentAlignment.elements, pos))
     THEN UNCHANGED dialogVars
     ELSE showRadiusDialog(getElementAt(currentAlignment.elements, pos))

\* finishDrawing only opens the name dialog
HandleRightClick ==
  /\ pc = "tool"
  /\ \E pos \in SelectPositions :
       IF isDrawing /\ Len(tempPoints) >= 2
       THEN UNCHANGED <<selectedElement, selectedIndex, threw, dialogVars>>
       ELSE IF alignments = <<>>
       THEN UNCHANGED <<selectedElement, selectedIndex, threw, dialogVars>>
       ELSE IF getElementAt(currentAlignment.elements, pos).type = "arc"
       THEN rightClickArc(pos)
       ELSE UNCHANGED <<selectedElement, selectedIndex, threw, dialogVars>>
  /\ UNCHANGED <<isDrawing, isEditing, tempPoints, alignments, draggedPoint,
                 draggedCurvePoint, dragOffset, defaultRadius>>
  /\ UNCHANGED engineVars

\* the user edits the radius field
InputRadius ==
  /\ pc = "tool"
  /\ \E text \in NumberInputValues : newRadiusInput' = text
  /\ UNCHANGED <<editingArc, radiusModalHidden, callbackArg, alerted>>
  /\ UNCHANGED toolVars
  /\ UNCHANGED engineVars

\* updateRadius(newRadius) ends with the TypeError of
\* updateSelectedElementInfo, raised inside recalculateAlignment
updateRadiusThrows(newRadius) ==
  IF alignments = <<>> THEN FALSE
  ELSE IF selectedElement.type # "arc" THEN FALSE
  ELSE IF hasIpIndex(selectedElement)
  THEN infoThrows(reselected(selectedElement,
                             alignmentsWithRadius(selectedElement.ipIndex,
                                                  newRadius)[Len(alignments)].elements))
  ELSE FALSE

\* this.callbacks.updateRadius?.(newRadius); this.hideRadiusDialog();
acceptRadius(newRadius) ==
  /\ callbackArg' = newRadius
  /\ updateRadius(newRadius)
  /\ IF updateRadiusThrows(newRadius)
     THEN UNCHANGED <<editingArc, radiusModalHidden>>
     ELSE /\ editingArc' = Null
          /\ radiusModalHidden' = TRUE

SaveRadius ==
  /\ pc = "tool"
  /\ IF isRejected(parseFloat(newRadiusInput))
     THEN /\ alerted' = TRUE
          /\ UNCHANGED <<editingArc, radiusModalHidden, callbackArg>>
          /\ UNCHANGED <<alignments, selectedElement, selectedIndex, threw, defaultRadius>>
     ELSE /\ alerted' = FALSE
          /\ IF editingArc # Null
             THEN acceptRadius(parseFloat(newRadiusInput))
             ELSE /\ UNCHANGED <<editingArc, radiusModalHidden, callbackArg>>
                  /\ UNCHANGED <<alignments, selectedElement, selectedIndex, threw,
                                 defaultRadius>>
  /\ UNCHANGED <<newRadiusInput, isDrawing, isEditing, tempPoints, draggedPoint,
                 draggedCurvePoint, dragOffset>>
  /\ UNCHANGED engineVars

\* cancelRadius: hideRadiusDialog
CancelRadius ==
  /\ pc = "tool"
  /\ radiusModalHidden' = TRUE
  /\ editingArc' = Null
  /\ UNCHANGED <<newRadiusInput, callbackArg, alerted>>
  /\ UNCHANGED toolVars
  /\ UNCHANGED engineVars

\* ------------------------------------------------------------------------
\* Editing an alignment with arcs
\* ------------------------------------------------------------------------
\* the IPs of the alignment that is edited: it deflects by pi / 2 at IP 1
\* and at IP 2
EditPoints == << IPt(0, 0), IPt(100, 0), IPt(100, 100), IPt(0, 100) >>

\* the alignment as saveAlignment builds it
EditAlignment == savedAlignment("A", EditPoints, radiiOf(Num(100), Len(EditPoints)))

\* the positions of the arcs among the elements
arcPositions(els) == { k \in 1..Len(els) : els[k].type = "arc" }

\* An alignment has been saved; an arc of it, or nothing, is selected; the
\* radius dialog is open for the selected arc, or closed; a curve point of
\* it, or nothing, has been picked by a mouse-down.
EditInit ==
  /\ pc = "tool"
  /\ points = <<>>
  /\ radiusArg = JSNum(Num(100))
  /\ arcs = <<>>
  /\ elements = <<>>
  /\ offsetDistance = Zero
  /\ offsetElements = <<>>
  /\ mousePos = IPt(0, 0)
  /\ foundElement = Null
  /\ isDrawing = FALSE
  /\ tempPoints = <<>>
  /\ alignments = << EditAlignment >>
  /\ draggedPoint = Null
  /\ draggedCurvePoint \in 0..Len(EditAlignment.curvePoints)
  /\ isEditing = (draggedCurvePoint # 0)
  /\ dragOffset = IF draggedCurvePoint = 0 THEN IPt(0, 0) ELSE Pt(NaN, NaN)
  /\ defaultRadius = Num(100)
  /\ selectedIndex \in {0} \cup arcPositions(EditAlignment.elements)
  /\ selectedElement = IF selectedIndex = 0 THEN Null
                       ELSE EditAlignment.elements[selectedIndex]
  /\ threw = FALSE
  /\ editingArc \in {Null, selectedElement}
  /\ radiusModalHidden = (editingArc = Null)
  /\ newRadiusInput = <<>>
  /\ callbackArg = Null
  /\ alerted = FALSE

\* dragging
EditNext ==
  \/ HandleMouseDown
  \/ HandleMouseMove
  \/ HandleMouseUp

EditSpec == EditInit /\ [][EditNext]_vars

\* selecting and the radius dialog
DialogNext ==
  \/ HandleCanvasClick
  \/ HandleRightClick
  \/ InputRadius
  \/ SaveRadius
  \/ CancelRadius
  \/ UpdateRadius

DialogSpec == EditInit /\ [][DialogNext]_vars

\* ------------------------------------------------------------------------
\* Properties
\* ------------------------------------------------------------------------
\* the call of calculateAlignmentElements has returned
Computed == pc # "input"

NumPoints == Len(points)

\* the radius argument is a number, as the engine documents it
NumericRadius == radiusArg.kind = "num"

\* the tangent built for the JavaScript index i, as the claims number them
TangentOf(i) == elements[i + 1]

\* the IP indices at which the first loop stored an arc
ArcIndices == { i \in DOMAIN arcs : IsArc(arcs[i]) }

\* the j-th smallest member of a set of integers
NthSmallest(S, j) == CHOOSE i \in S : Cardinality({ m \in S : m < i }) = j - 1

\* C1: for every IP sequence of length n >= 2, whatever the positions and
\* the radius, the returned elements hold exactly n - 1 tangents.
C1_TangentCount ==
  (Computed /\ NumPoints >= 2) =>
    Cardinality({ k \in 1..Len(elements) : IsTangent(elements[k]) }) = NumPoints - 1

C1_Witness ==
  /\ Computed
  /\ NumPoints = 4
  /\ Len(elements) = 5

\* C2: tangent i starts at the end point of the arc at IP i when there is
\* one and at IP i otherwise, ends at the start point of the arc at IP i+1
\* when there is one and at IP i+1 otherwise, and its originalStart and
\* originalEnd are the raw IPs i and i+1.
C2_TangentEndpoints ==
  (Computed /\ NumPoints >= 2) =>
    \A i \in 0..(NumPoints - 2) :
      /\ IsTangent(TangentOf(i))
      /\ TangentOf(i).startPoint =
           (IF i \in ArcIndices THEN arcs[i].endPoint ELSE At(points, i))
      /\ TangentOf(i).endPoint =
           (IF (i + 1) \in ArcIndices THEN arcs[i + 1].startPoint ELSE At(points, i + 1))
      /\ TangentOf(i).originalStart = At(points, i)
      /\ TangentOf(i).originalEnd = At(points, i + 1)

C2_Witness ==
  /\ Computed
  /\ NumericRadius
  /\ NumPoints = 4
  /\ ArcIndices = {1, 2}
  /\ TangentOf(1).startPoint = arcs[1].endPoint
  /\ TangentOf(1).endPoint = arcs[2].startPoint
  /\ TangentOf(1).startPoint # At(points, 1)
  /\ TangentOf(0).startPoint = At(points, 0)

\* the radius a RadiusSpec gives for IP i: its entry i, else its default
RadiusInSpec(spec, i) ==
  IF i \in DOMAIN spec.byIndex THEN spec.byIndex[i] ELSE spec.default

\* C3: when the radii are given as a RadiusSpec, the arc at interior IP i
\* has as radius the number the RadiusSpec holds for index i (its default
\* when index i is absent).
C3_RadiusFromSpec ==
  (Computed /\ radiusArg.kind = "spec") =>
    \A i \in ArcIndices : arcs[i].radius = JSNum(RadiusInSpec(radiusArg.spec, i))

\* the arcs among the returned elements, in their order
ArcElements == SelectSeq(elements, IsArc)

\* the worked example: (0,0), (100,0), (100,100) with radius 20
RightAngleExample ==
  /\ points = << IPt(0, 0), IPt(100, 0), IPt(100, 100) >>
  /\ radiusArg = JSNum(Num(20))

\* C4 as stated: the right-angle example yields exactly one arc, a right
\* turn with tangentLength 20, start point (80,0), end point (100,80) and
\* radius 20.
C4_RightAngleAsStated ==
  (Computed /\ RightAngleExample) =>
    /\ Len(ArcElements) = 1
    /\ ArcElements[1].isRightTurn
    /\ ArcElements[1].tangentLength = Num(20)
    /\ ArcElements[1].startPoint = IPt(80, 0)
    /\ ArcElements[1].endPoint = IPt(100, 80)
    /\ ArcElements[1].radius = JSNum(Num(20))

\* C4 amended: the right-angle example yields exactly one arc, a right turn
\* with tangentLength 20, start point (80,0), end point (100,20) (the IP
\* plus tangentLength along the outgoing direction) and radius 20.
C4_RightAngle ==
  (Computed /\ RightAngleExample) =>
    /\ Len(ArcElements) = 1
    /\ ArcElements[1].isRightTurn
    /\ ArcElements[1].tangentLength = Num(20)
    /\ ArcElements[1].startPoint = IPt(80, 0)
    /\ ArcElements[1].endPoint = IPt(100, 20)
    /\ ArcElements[1].radius = JSNum(Num(20))

C4_Witness ==
  /\ Computed
  /\ RightAngleExample
  /\ Len(elements) = 3
  /\ IsArc(elements[3])

\* C5: the returned sequence is tangent 0, tangent 1, ... in IP order,
\* followed by the arcs in increasing IP index; no arc precedes a tangent.
C5_ElementOrder ==
  (Computed /\ NumPoints >= 2) =>
    /\ Len(elements) = (NumPoints - 1) + Cardinality(ArcIndices)
    /\ \A i \in 0..(NumPoints - 2) :
         /\ IsTangent(TangentOf(i))
         /\ TangentOf(i).originalStart = At(points, i)
         /\ TangentOf(i).originalEnd = At(points, i + 1)
    /\ \A j \in 1..Cardinality(ArcIndices) :
         /\ IsArc(elements[NumPoints - 1 + j])
         /\ elements[NumPoints - 1 + j] = arcs[NthSmallest(ArcIndices, j)]

C5_Witness ==
  /\ Computed
  /\ NumericRadius
  /\ ArcIndices = {1, 2}
  /\ arcs[1] # arcs[2]
  /\ elements[4] = arcs[1]
  /\ elements[5] = arcs[2]

\* the deflection at the interior IP i, from the IPs themselves
DeflectionAt(i) ==
  calculateAngleBetweenVectors(getUnitVector(At(points, i - 1), At(points, i)),
                               getUnitVector(At(points, i), At(points, i + 1)))

InteriorIndices == 1..(NumPoints - 2)

\* |deflection| >= 0.05 rad at IP i
DeflectsAtLeastThreshold(i) == ~AbsBelowThreshold(DeflectionAt(i))

\* C6: an arc exists at index i exactly when i is an interior IP whose
\* absolute deflection is at least 0.05 rad; where it is smaller there is
\* no arc and both adjacent tangents end at the raw IP; hence at most n - 2
\* arcs.
C6_ArcIffDeflection ==
  Computed =>
    /\ ArcIndices \subseteq InteriorIndices
    /\ \A i \in InteriorIndices : (i \in ArcIndices) <=> DeflectsAtLeastThreshold(i)
    /\ Len(ArcElements) =
         Cardinality({ i \in InteriorIndices : DeflectsAtLeastThreshold(i) })
    /\ \A i \in InteriorIndices :
         ~DeflectsAtLeastThreshold(i) =>
           /\ TangentOf(i - 1).endPoint = At(points, i)
           /\ TangentOf(i).startPoint = At(points, i)
    /\ Len(ArcElements) <= (IF NumPoints >= 2 THEN NumPoints - 2 ELSE 0)

\* an IP deflecting by a non-zero angle below the threshold next to one
\* that carries an arc
C6_Witness ==
  /\ Computed
  /\ NumericRadius
  /\ NumPoints = 4
  /\ \E i, j \in InteriorIndices :
       /\ DeflectionAt(i).y # 0
       /\ ~DeflectsAtLeastThreshold(i)
       /\ i \notin ArcIndices
       /\ j \in ArcIndices
  /\ Len(ArcElements) = 1

\* the two directions make an angle below pi / 2
DotPositive(a, b) == a.x * b.x + a.y * b.y > 0

\* (center - ip) . (out - in) > 0, on the directions of the two vectors:
\* the center lies on the side of the IP towards which the alignment turns
IsInsideTurn(center, ip, inDirection, outDirection) ==
  /\ center # ip
  /\ DotPositive(Atan2(Sub(center.y, ip.y), Sub(center.x, ip.x)),
                 Atan2(Sub(outDirection.y, inDirection.y),
                       Sub(outDirection.x, inDirection.x)))

CenterInsideTurn(i) ==
  IsInsideTurn(arcs[i].centerPoint, At(points, i),
               getUnitVector(At(points, i - 1), At(points, i)),
               getUnitVector(At(points, i), At(points, i + 1)))

\* C7: every arc's center is at distance radius from both the arc start
\* point and the arc end point, and lies on the inside of the turn, for
\* right and left turns alike.
C7_ArcCenter ==
  Computed =>
    \A i \in ArcIndices :
      /\ calculateDistance(arcs[i].centerPoint, arcs[i].startPoint)
           = ToNumber(arcs[i].radius)
      /\ calculateDistance(arcs[i].centerPoint, arcs[i].endPoint)
           = ToNumber(arcs[i].radius)
      /\ CenterInsideTurn(i)

\* CanvasRenderingContext2D.arc(x, y, r, startAngle, endAngle, anticlockwise)
\* draws the whole circle when the angles are a full turn or more apart in
\* the drawing direction
DrawsFullCircle(arc) ==
  IF arc.isRightTurn
  THEN ~AngleLess(arc.startAngle, AddTwoPi(arc.endAngle))
  ELSE ~AngleLess(arc.endAngle, AddTwoPi(arc.startAngle))

\* the extent drawn from startAngle to endAngle in the drawing direction,
\* as a direction in [0, 2 pi)
DrawnSweep(startAngle, endAngle, anticlockwise) ==
  IF anticlockwise
  THEN Atan2Scaled(startAngle.y * endAngle.x - startAngle.x * endAngle.y,
                   startAngle.x * endAngle.x + startAngle.y * endAngle.y, FALSE)
  ELSE Atan2Scaled(startAngle.x * endAngle.y - startAngle.y * endAngle.x,
                   startAngle.x * endAngle.x + startAngle.y * endAngle.y, FALSE)

SameDirection(a, b) == a.x = b.x /\ a.y = b.y

\* the point of the circle at the given angle
PointAtAngle(center, radius, angle) ==
  [x |-> Add(center.x, Mul(radius, MathCos(angle))),
   y |-> Add(center.y, Mul(radius, MathSin(angle)))]

\* the drawn path is the minor arc: something is drawn (no NaN argument), it
\* is not the whole circle, its extent is |deflection|, and it runs from
\* the arc end point to the arc start point
DrawsMinorArc(arc) ==
  /\ ~IsNaNAngle(arc.startAngle)
  /\ ~IsNaNAngle(arc.endAngle)
  /\ ~IsNaN(ToNumber(arc.radius))
  /\ ~DrawsFullCircle(arc)
  /\ SameDirection(DrawnSweep(arc.startAngle, arc.endAngle, arc.isRightTurn),
                   [x |-> arc.deflectionAngle.x, y |-> Abs(arc.deflectionAngle.y)])
  /\ PointAtAngle(arc.centerPoint, ToNumber(arc.radius), arc.startAngle) = arc.endPoint
  /\ PointAtAngle(arc.centerPoint, ToNumber(arc.radius), arc.endAngle) = arc.startPoint

\* C8: drawing any arc from startAngle to endAngle with anticlockwise =
\* isRightTurn traces the minor arc of extent |deflection| that joins the
\* arc end point and the arc start point.
C8_MinorArc ==
  Computed =>
    \A i \in ArcIndices : DrawsMinorArc(arcs[i])

\* C9: every arc among the elements has a strictly positive radius and a
\* non-negative, finite tangent length, for every IP sequence and every
\* positive radius input.
C9_PositiveRadiusTangentLength ==
  Computed =>
    \A k \in 1..Len(elements) :
      IsArc(elements[k]) =>
        /\ Less(Zero, ToNumber(elements[k].radius))
        /\ LessEq(Zero, elements[k].tangentLength)

\* radius + d on a right turn, radius - d on a left turn
OffsetRadiusOf(arc, d) ==
  IF arc.isRightTurn THEN Add(ToNumber(arc.radius), d)
  ELSE Sub(ToNumber(arc.radius), d)

\* positions of the elements that have an offset element
KeptIndices(d) ==
  { k \in 1..Len(elements) :
      \/ IsTangent(elements[k])
      \/ IsArc(elements[k]) /\ Less(Zero, OffsetRadiusOf(elements[k], d)) }

IsOffsetOf(o, e, d) ==
  /\ o.type = e.type
  /\ o.offset = d
  /\ o.parentElement = e
  /\ IsArc(e) => o.radius = JSNum(OffsetRadiusOf(e, d))

\* C10: the offset alignment holds, in input order, one offset element per
\* tangent and per arc whose offset radius (radius + d on a right turn,
\* radius - d on a left turn) is positive; an arc is left out exactly when
\* that offset radius is <= 0; each offset element carries offset = d and
\* parentElement = its source element.
C10_OffsetAlignment ==
  pc = "offset" =>
    /\ Len(offsetElements) = Cardinality(KeptIndices(offsetDistance))
    /\ \A j \in 1..Len(offsetElements) :
         IsOffsetOf(offsetElements[j],
                    elements[NthSmallest(KeptIndices(offsetDistance), j)],
                    offsetDistance)

\* the directions are at right angles
DotZero(a, b) == a.x * b.x + a.y * b.y = 0

\* the offset tangent runs at distance `radius` from `center`: its end
\* `foot` next to the arc is the foot of the perpendicular from the center
\* onto the offset tangent line, and lies at that distance
HasClearance(center, radius, foot, tangent) ==
  /\ foot # center
  /\ tangent.startPoint # tangent.endPoint
  /\ DotZero(Atan2(Sub(foot.y, center.y), Sub(foot.x, center.x)),
             Atan2(Sub(tangent.endPoint.y, tangent.startPoint.y),
                   Sub(tangent.endPoint.x, tangent.startPoint.x)))
  /\ calculateDistance(center, foot) = ToNumber(radius)

\* the offset elements of the arc at IP i (none when it was dropped)
OffsetArcsOf(i) ==
  { j \in 1..Len(offsetElements) :
      IsArc(offsetElements[j]) /\ offsetElements[j].parentElement = arcs[i] }

\* C11: when an arc and its adjacent tangents are offset by the same d, the
\* offset arc's radius equals the distance from the arc center to each of
\* the two offset tangent lines (it shrinks when the tangents move towards
\* the center and grows when they move away).
C11_ConstantClearance ==
  pc = "offset" =>
    \A i \in ArcIndices : \A j \in OffsetArcsOf(i) :
      /\ HasClearance(offsetElements[j].centerPoint, offsetElements[j].radius,
                      offsetElements[i].endPoint, offsetElements[i])
      /\ HasClearance(offsetElements[j].centerPoint, offsetElements[j].radius,
                      offsetElements[i + 1].startPoint, offsetElements[i + 1])

\* C12: for every retained offset arc, its startPoint is the endPoint of
\* the offset of the preceding tangent and its endPoint is the startPoint
\* of the offset of the following tangent.
C12_OffsetContinuity ==
  pc = "offset" =>
    \A i \in ArcIndices : \A j \in OffsetArcsOf(i) :
      /\ offsetElements[j].startPoint = offsetElements[i].endPoint
      /\ offsetElements[j].endPoint = offsetElements[i + 1].startPoint

Queried == pc = "queried"

\* positions of the elements whose proximity predicate holds at mousePos
Matches ==
  { k \in 1..Len(elements) : isElementAtPosition(mousePos, elements[k], tolerance) }

\* C13: getElementAt returns the first element in sequence order whose
\* proximity predicate holds at the query point, null when none holds; when
\* a tangent matches, a tangent is returned whatever arc matches as well.
C13_SelectionTieBreak ==
  Queried =>
    /\ (Matches = {}) <=> (foundElement.type = "none")
    /\ \A k \in Matches :
         (\A m \in Matches : k <= m) =>
           /\ foundElement.type = elements[k].type
           /\ foundElement = elements[k]
    /\ (\E k \in Matches : IsTangent(elements[k])) => IsTangent(foundElement)

\* |dist(p, center) - radius|
RadiusDifference(p, arc) ==
  MathAbs(Sub(calculateDistance(p, arc.centerPoint), ToNumber(arc.radius)))

\* a tangent and an arc both match, the mouse is exactly on the arc's
\* circle and off the tangent, and the tangent is returned
C13_Witness ==
  /\ Queried
  /\ NumericRadius
  /\ IsTangent(foundElement)
  /\ ~IsZero(Sub(Add(calculateDistance(mousePos, foundElement.startPoint),
                     calculateDistance(mousePos, foundElement.endPoint)),
                 calculateDistance(foundElement.startPoint, foundElement.endPoint)))
  /\ \E m \in Matches :
       /\ IsArc(elements[m])
       /\ IsZero(RadiusDifference(mousePos, elements[m]))

\* z component of the cross product of (a - c) and (b - c)
CrossAbout(c, a, b) ==
  Sub(Mul(Sub(a.x, c.x), Sub(b.y, c.y)), Mul(Sub(a.y, c.y), Sub(b.x, c.x)))

\* p is in the angular sector of a minor arc: between the directions of its
\* two ends as seen from the center
InSweep(arc, p) ==
  /\ LessEq(Zero, Mul(CrossAbout(arc.centerPoint, arc.startPoint, arc.endPoint),
                      CrossAbout(arc.centerPoint, arc.startPoint, p)))
  /\ LessEq(Zero, Mul(CrossAbout(arc.centerPoint, arc.startPoint, arc.endPoint),
                      CrossAbout(arc.centerPoint, p, arc.endPoint)))

\* C14: the proximity predicate of an arc holds exactly when
\* |dist(p, center) - radius| <= tolerance, boundary included, whatever its
\* startAngle and endAngle; an arc that is the first match is returned
\* even for a point outside its sweep.
C14_ArcPredicateRadiusOnly ==
  Queried =>
    /\ \A k \in 1..Len(elements) :
         IsArc(elements[k]) =>
           (k \in Matches <=> LessEq(RadiusDifference(mousePos, elements[k]), tolerance))
    /\ \A k \in 1..Len(elements) :
         (IsArc(elements[k])
            /\ LessEq(RadiusDifference(mousePos, elements[k]), tolerance)
            /\ \A m \in 1..(k - 1) : m \notin Matches)
         => foundElement = elements[k]

\* the mouse is exactly tolerance away from the circle, outside the sweep,
\* and the arc is returned
C14_Witness ==
  /\ Queried
  /\ NumericRadius
  /\ IsArc(foundElement)
  /\ RadiusDifference(mousePos, foundElement) = tolerance
  /\ ~InSweep(foundElement, mousePos)
  /\ foundElement.startPoint # foundElement.endPoint

\* three points, the second strictly between the first and the third on one
\* line
CollinearAhead ==
  /\ NumPoints = 3
  /\ points[1] # points[2]
  /\ getUnitVector(points[1], points[2]) = getUnitVector(points[2], points[3])

\* C15: three collinear points ordered along one direction give no arc and
\* two tangents whose lengths add up to the distance from the first point
\* to the last.
C15_StraightPassThrough ==
  (Computed /\ CollinearAhead) =>
    /\ Len(ArcElements) = 0
    /\ Len(elements) = 2
    /\ IsTangent(elements[1])
    /\ IsTangent(elements[2])
    /\ Add(elements[1].length, elements[2].length)
         = calculateDistance(points[1], points[3])

C15_Witness ==
  /\ Computed
  /\ points = << IPt(0, 0), IPt(100, 0), IPt(200, 0) >>
  /\ Len(elements) = 2
  /\ Add(elements[1].length, elements[2].length) = Num(200)

\* the angle 0
ZeroAngle == [y |-> 0, x |-> 1, k |-> 0]

\* C16: when two consecutive IPs coincide no arc is produced at either of
\* the two indices, and the tangent between them has length 0 and bearing 0.
C16_DegenerateSegment ==
  Computed =>
    \A i \in 0..(NumPoints - 2) :
      At(points, i) = At(points, i + 1) =>
        /\ i \notin ArcIndices
        /\ (i + 1) \notin ArcIndices
        /\ IsZero(TangentOf(i).length)
        /\ TangentOf(i).bearing = ZeroAngle

\* C17: a call with fewer than 2 points returns the empty sequence.
C17_TooFewPoints ==
  (Computed /\ NumPoints < 2) => elements = <<>>

C17_Witness ==
  /\ Computed
  /\ NumPoints = 1
  /\ elements = <<>>

\* a step that is a call of calculateAlignmentElements
IsEngineCall ==
  IF pc = "input" THEN pc' = "computed"
  ELSE IF pc = "computed" THEN pc' = "recomputed"
  ELSE FALSE

PerpOf(tangent) ==
  Pt(Neg(getUnitVector(tangent.startPoint, tangent.endPoint).y),
     getUnitVector(tangent.startPoint, tangent.endPoint).x)

\* p + d * perp
Displaced(p, d, perp) ==
  Pt(Add(p.x, Mul(d, perp.x)), Add(p.y, Mul(d, perp.y)))

\* offs is the single tangent t with both endpoints displaced by d * perp,
\* bearing and length as in t
IsDisplacedBy(offs, t, d) ==
  /\ Len(offs) = 1
  /\ offs[1].type = "tangent"
  /\ offs[1].startPoint = Displaced(t.startPoint, d, PerpOf(t))
  /\ offs[1].endPoint = Displaced(t.endPoint, d, PerpOf(t))
  /\ offs[1].bearing = t.bearing
  /\ offs[1].length = t.length

\* p is halfway between a and b
IsMidpoint(p, a, b) ==
  /\ Add(a.x, b.x) = Mul(Num(2), p.x)
  /\ Add(a.y, b.y) = Mul(Num(2), p.y)

\* the endpoints of a and b are mirror images across the line of t
IsMirrorPair(a, b, t) ==
  /\ IsMidpoint(t.startPoint, a[1].startPoint, b[1].startPoint)
  /\ IsMidpoint(t.endPoint, a[1].endPoint, b[1].endPoint)

\* C19: for a single tangent, the offset by d displaces both endpoints by
\* +d * perp and the offset by -d by -d * perp; the two results are mirror
\* images across the original line, bearing and length unchanged in both.
C19_OffsetSignSymmetry ==
  (pc = "offset" /\ NumPoints = 2) =>
    /\ IsDisplacedBy(offsetElements, elements[1], offsetDistance)
    /\ IsDisplacedBy(calculateOffsetAlignment(elements, Neg(offsetDistance)),
                     elements[1], Neg(offsetDistance))
    /\ IsMirrorPair(offsetElements,
                    calculateOffsetAlignment(elements, Neg(offsetDistance)),
                    elements[1])

C19_Witness ==
  /\ pc = "offset"
  /\ points = << IPt(0, 0), IPt(100, 0) >>
  /\ offsetDistance = Num(15)
  /\ offsetElements[1].startPoint = IPt(0, 15)
  /\ offsetElements[1].endPoint = IPt(100, 15)
  /\ calculateOffsetAlignment(elements, Num(-15))[1].startPoint = IPt(0, -15)

\* C20: whenever there is a current alignment, its elements are those the
\* engine computes from its points and its radii as they are in that state.
C20_RecomputeContract ==
  alignments # <<>> =>
    currentAlignment.elements
      = calculateAlignmentElements(currentAlignment.points, <<>>,
                                   currentAlignment.radii)

C20_Witness ==
  /\ alignments # <<>>
  /\ isEditing
  /\ draggedPoint # Null
  /\ currentAlignment.points = << IPt(100, 100), IPt(100, 0), IPt(200, 0) >>
  /\ Len(currentAlignment.elements) = 3
  /\ currentAlignment.elements[1].startPoint = IPt(100, 100)

\* C21: every arc carries an ipIndex field equal to the index of the
\* interior IP at which it was built.
C21_ArcIpIndex ==
  Computed =>
    \A i \in DOMAIN arcs :
      IsArc(arcs[i]) => (hasIpIndex(arcs[i]) /\ arcs[i].ipIndex = i)

\* the adjusted perpendiculars at the arc of IP i are parallel: the
\* intersection is null and calculateArcCenter returns the fallback
TakesFallback(i) ==
  ~calculateLineIntersection(
      arcs[i].startPoint,
      adjustIncomingPerp(
        getPerpendicularVector(getUnitVector(At(points, i - 1), At(points, i))),
        arcs[i].isRightTurn),
      arcs[i].endPoint,
      adjustOutgoingPerp(
        getPerpendicularVector(getUnitVector(At(points, i), At(points, i + 1))),
        arcs[i].isRightTurn)).ok

IsStraightAngle(a) == a.y = 0 /\ a.x < 0

IsFinitePoint(p) == ~IsNaN(p.x) /\ ~IsNaN(p.y)

\* eastward and northward displacement from a to b (canvas y grows downwards)
East(a, b) == Sub(b.x, a.x)

North(a, b) == Sub(a.y, b.y)

\* the angles 2 * pi, pi / 2, pi and 3 * pi / 2
TwoPi == [y |-> 0, x |-> 1, k |-> 1]

HalfPi == [y |-> 1, x |-> 0, k |-> 0]

Pi == [y |-> 0, x |-> -1, k |-> 0]

ThreeHalfPi == [y |-> -1, x |-> 0, k |-> 1]

\* 0 <= bearing < 2 * pi
InZeroTwoPi(bearing) ==
  /\ ~IsNaNAngle(bearing)
  /\ ~AngleNegative(bearing)
  /\ AngleLess(bearing, TwoPi)

\* the bearing points along (east, north): its sine is along east and its
\* cosine along north, so it turns clockwise from north on the canvas
PointsAlong(bearing, east, north) ==
  /\ Mul(Num(bearing.y), north) = Mul(Num(bearing.x), east)
  /\ ~Less(Add(Mul(Num(bearing.y), east), Mul(Num(bearing.x), north)), Zero)

Sign(q) == IF q.n > 0 THEN 1 ELSE IF q.n < 0 THEN -1 ELSE 0

\* the bearing lies in the quadrant of (east, north); for a = b it is 0
InQuadrantOf(bearing, east, north) ==
  IF IsZero(east) /\ IsZero(north) THEN bearing = ZeroAngle
  ELSE Sign(Num(bearing.y)) = Sign(east) /\ Sign(Num(bearing.x)) = Sign(north)

\* the value of the four cardinal directions
CardinalBearing(bearing, east, north) ==
  /\ (IsZero(east) /\ Less(Zero, north)) => bearing = ZeroAngle
  /\ (Less(Zero, east) /\ IsZero(north)) => bearing = HalfPi
  /\ (IsZero(east) /\ Less(north, Zero)) => bearing = Pi
  /\ (Less(east, Zero) /\ IsZero(north)) => bearing = ThreeHalfPi

\* the bearing of a tangent from a to b follows the convention
IsBearingOf(bearing, a, b) ==
  /\ InZeroTwoPi(bearing)
  /\ InQuadrantOf(bearing, East(a, b), North(a, b))
  /\ (IsSmallPoint(a) /\ IsSmallPoint(b)) =>
       PointsAlong(bearing, East(a, b), North(a, b))
  /\ CardinalBearing(bearing, East(a, b), North(a, b))

\* the tangents whose end points are numbers
FiniteTangents ==
  { k \in 1..Len(elements) :
      IF IsTangent(elements[k])
      THEN IsFinitePoint(elements[k].startPoint) /\ IsFinitePoint(elements[k].endPoint)
      ELSE FALSE }

TangentLengthAt(i) ==
  IF i \in ArcIndices THEN arcs[i].tangentLength ELSE Zero

\* C28: for every tangent i the tangent lengths of the arcs at IP i and at
\* IP i + 1 add up to at most the distance between the two IPs, and the
\* tangent's length is that distance minus the two tangent lengths.
C28_NoOverrun ==
  Computed =>
    \A i \in 0..(NumPoints - 2) :
      /\ LessEq(Add(TangentLengthAt(i), TangentLengthAt(i + 1)),
                calculateDistance(At(points, i), At(points, i + 1)))
      /\ TangentOf(i).length
           = Sub(calculateDistance(At(points, i), At(points, i + 1)),
                 Add(TangentLengthAt(i), TangentLengthAt(i + 1)))

\* C27: the selected element is null or one of the element objects of the
\* current alignment; in particular a selected tangent is still one of them
\* after a recomputation triggered by a drag.
C27_SelectedIsCurrent ==
  pc = "tool" =>
    IF selectedElement = Null THEN TRUE
    ELSE IF selectedIndex \in 1..Len(currentAlignment.elements)
    THEN currentAlignment.elements[selectedIndex] = selectedElement
    ELSE FALSE

\* NaN, zero or negative
IsInvalidRadius(q) == IF IsNaN(q) THEN TRUE ELSE ~Less(Zero, q)

\* saveRadius runs on a radius field that holds an invalid value
RejectingSave == SaveRadius /\ IsInvalidRadius(parseFloat(newRadiusInput))

\* C22: saveRadius never passes NaN, zero or a negative number to the
\* updateRadius callback; on such input editingArc is unchanged (the dialog
\* stays open) and the radii, the elements and the default radius are
\* unchanged.
C22_InvalidRadiusRejected ==
  /\ [](IF callbackArg = Null THEN TRUE ELSE ~IsInvalidRadius(callbackArg))
  /\ [][RejectingSave =>
          UNCHANGED <<editingArc, radiusModalHidden, callbackArg, alignments,
                      defaultRadius, selectedElement>>]_vars

C22_Witness ==
  /\ editingArc # Null
  /\ ~radiusModalHidden
  /\ newRadiusInput = << "0", ".", "0" >>
  /\ alerted
  /\ callbackArg = Null
  /\ alignments = << EditAlignment >>

\* the interior IPs of the alignment at which the engine builds an arc
arcIndicesOf(alignment) ==
  { i \in 1..(Len(alignment.points) - 2) :
      IsArc(calculateArcs(alignment.points, alignment.radii)[i]) }

\* the IP at which the arc at position k of the elements was built: the
\* arcs follow the tangents in increasing IP index
ipIndexOfElement(alignment, k) ==
  NthSmallest(arcIndicesOf(alignment), k - (Len(alignment.points) - 1))

\* an arc of the current alignment is selected
ArcIsSelected ==
  IF selectedIndex = 0 THEN FALSE ELSE selectedElement.type = "arc"

\* the IP of the selected arc
SelectedIP == ipIndexOfElement(currentAlignment, selectedIndex)

\* saveRadius passes the value of the radius field to updateRadius
AcceptingSave ==
  /\ SaveRadius
  /\ editingArc # Null
  /\ ~IsInvalidRadius(parseFloat(newRadiusInput))

\* the radii entries of the IPs other than i, and the default
OtherRadii(alignment, i) ==
  [j \in DOMAIN alignment.radii.spec.byIndex \ {i} |-> alignment.radii.spec.byIndex[j]]

DragRecomputes == HandleMouseMove /\ isEditing /\ draggedPoint # Null

CurveDragMove ==
  /\ HandleMouseMove
  /\ isEditing
  /\ draggedPoint = Null
  /\ draggedCurvePoint # 0

C30_OthersUnchanged ==
  [][\A a \in DOMAIN alignments :
       a < Len(alignments') => alignments'[a] = alignments[a]]_vars

====
